---- MODULE Spec2Model ----
(***************************************************************************)
(* A model of spacious_corpus: the chunked document archive (storage.py,   *)
(* class DocZip) and the numeric-shape generalizer (tokens.py,             *)
(* smash_numbers).                                                         *)
(*                                                                         *)
(* Chunk names are strings; a token is a sequence of one-character        *)
(* strings.  A document text handed to the tokenizer is an abstract text   *)
(* identifier (a natural number).                                          *)
(***************************************************************************)
EXTENDS Integers, Sequences, FiniteSets, TLC

(* ------------------------------ bounds --------------------------------- *)

\* longest input stream of the small archive specification
MaxDocs == 10
\* largest chunk_size passed to write_stream
MaxCap == 3
\* number of iterators that may be alive at once
MaxReaders == 2
\* how many chunks beyond 10^PadWidth the large archive has
MaxExtra == 1
\* longest token handed to smash_numbers
MaxLen == 4
\* the longest text drawn from TextAlphabet for normalize_text and transliterate
MaxText == 2
\* how many callers of get_language_info run concurrently
MaxCallers == 2
\* how many get_language_info calls the callers start in all
MaxCalls == 2
\* how many tokens the archive count_tokens reads holds in all
MaxTokens == 6
\* how many tokens a Doc of that archive holds at most
DocSize == 2
\* how many lines the stream handed to tokenize_stream holds at most
MaxLines == 3
\* the largest start_at and the largest limit handed to corpus_reader
MaxSlice == 3

(* ------------------------- program constants --------------------------- *)

\* the minimum field width of the chunk index in f"{chunk_num:>03d}"
PadWidth == 3

None == "None"

(* ------------------------------ state ---------------------------------- *)

VARIABLES
    lang,        \* DocZip.lang
    stream,      \* the input of the running write_stream call: texts, in order
    chunk_size,  \* the chunk_size argument of the running write_stream call
    pulled,      \* how many items enumerate(stream) has handed out
    currvalue,   \* the item groupby holds: <<index, text>>, or None
    chunk_num,   \* the loop variable chunk_num (the key of the current group)
    doc_bin,     \* the writer's local doc_bin: the Docs added so far
    wpc,         \* the position of write_stream
    zip,         \* the container at self.path: entries [name, blob], in order
    damaged,     \* indices of entries whose stored bytes no longer decode
    rpc,         \* per iterator: the position of iterate()
    rnames,      \* per iterator: the list get_chunks() returned
    rk,          \* per iterator: how many chunk names the loop has taken
    rbin,        \* per iterator: the Docs of the chunk iterate_chunk decoded
    ri,          \* per iterator: how many Docs of rbin were yielded
    yielded,     \* per iterator: every Doc yielded so far, in order
    token,       \* the argument of the smash_numbers call
    smashed,     \* its result
    tpc,         \* the position of the smash_numbers call
    ntext,       \* the text argument of the normalize_text and normalize_token calls
    nlang,       \* the language argument of the normalizing or counting call
    normalized,  \* what normalize_text(text, language) returned
    renormalized, \* what normalize_text(normalized, language) returned
    ntoken,      \* what normalize_token(text, language) returned
    npc,         \* the position of the normalizing caller
    heap,        \* the info dicts get_language_info has created, by identity
    cache,       \* the lru_cache of get_language_info: tag -> identity, 0: no entry
    itag,        \* per caller: the argument of its get_language_info call
    ipc,         \* per caller: the position of its get_language_info call
    iret,        \* per caller: the identity of the dict its last call returned
    calls,       \* how many get_language_info calls callers have started
    xtable,      \* the table argument of the transliterate call
    transliterated,   \* what transliterate(table, text) returned or raised
    retransliterated, \* what transliterate(table, transliterated) returned
    xpc,         \* the position of the transliterating caller
    cdocs,       \* the Docs iterating the DocZip yields: each the texts of its tokens
    counts,      \* count_tokens: the Counter counts
    total,       \* count_tokens: the local total
    out_file,    \* the lines written to out_filename, in order
    ci,          \* count_tokens: how many Docs the loop has taken
    cpc,         \* the position of count_tokens
    letters,     \* an uppercase letter and its lowercase letter, both table keys
    merged,      \* what normalize_text returned for each of the two letters
    lpc,         \* the position of the caller normalizing the two letters
    ftext,       \* the argument of the casefold_with_i_dots call
    folded,      \* what casefold_with_i_dots(text) returned
    fpc,         \* the position of the casefold_with_i_dots call
    klines,      \* tokenize_stream: the lines of its stream argument, in order
    use_ftfy,    \* tokenize_stream: its use_ftfy argument
    kpc,         \* the position of tokenize_stream
    start_at,    \* corpus_reader: its start_at argument
    limit,       \* corpus_reader: its limit argument
    corpus,      \* the Docs the iterator corpus_iterator returned has yielded
    qpc          \* the position of the caller of corpus_reader

wvars == <<lang, stream, chunk_size, pulled, currvalue, chunk_num, doc_bin, wpc>>
rvars == <<rpc, rnames, rk, rbin, ri, yielded>>
tvars == <<token, smashed, tpc>>
nvars == <<ntext, nlang, normalized, renormalized, ntoken, npc>>
ivars == <<heap, cache, itag, ipc, iret, calls>>
xvars == <<xtable, transliterated, retransliterated, xpc>>
cvars == <<cdocs, counts, total, out_file, ci, cpc>>
lvars == <<letters, merged, lpc>>
fvars == <<ftext, folded, fpc>>
kvars == <<klines, use_ftfy, kpc>>
qvars == <<start_at, limit, corpus, qpc>>
\* what only the later callers touch
pvars == <<lvars, fvars, kvars, qvars>>
\* what the archive and smash_numbers never touch
ovars == <<nvars, ivars, xvars, cvars, pvars>>
vars == <<lang, stream, chunk_size, pulled, currvalue, chunk_num, doc_bin, wpc,
          zip, damaged, rpc, rnames, rk, rbin, ri, yielded, token, smashed, tpc,
          nvars, ivars, xvars, cvars, pvars>>

Readers == 1..MaxReaders
Callers == 1..MaxCallers
Caps == 1..MaxCap
Langs == {"en"}

(* --------------------------- helper operators -------------------------- *)

Min(a, b) == IF a < b THEN a ELSE b

RECURSIVE Pow10(_)
Pow10(n) == IF n = 0 THEN 1 ELSE 10 * Pow10(n - 1)

DigitChars == <<"0", "1", "2", "3", "4", "5", "6", "7", "8", "9">>

\* str(n) for n >= 0
RECURSIVE Decimal(_)
Decimal(n) ==
    IF n < 10 THEN DigitChars[n + 1]
    ELSE Decimal(n \div 10) \o DigitChars[(n % 10) + 1]

\* format(n, ">03d"): right-aligned in a field of at least PadWidth, filled with "0"
RECURSIVE PadLeft(_, _)
PadLeft(s, w) == IF Len(s) >= w THEN s ELSE PadLeft("0" \o s, w)

FormatIndex(n) == PadLeft(Decimal(n), PadWidth)

\* f"{self.lang}_{chunk_num:>03d}.spacy"
ChunkName(l, n) == l \o "_" \o FormatIndex(n) \o ".spacy"

\* self.nlp(text): the external tokenizer makes one Doc of one text
nlp(text) == [orth |-> text]

\* the Docs of a sequence of texts, one per text, in order
AllDocs(s) == [i \in 1..Len(s) |-> nlp(s[i])]

\* DocBin.to_bytes / to_disk: the token arrays of the Docs, in order
ToBytes(docs) == [format |-> "spacy", orths |-> [i \in 1..Len(docs) |-> docs[i].orth]]

\* DocBin.from_bytes followed by get_docs: the Docs rebuilt from the arrays
GetDocs(blob) == [i \in 1..Len(blob.orths) |-> [orth |-> blob.orths[i]]]

\* ord(c) for the characters of a chunk name
Ord ==
    ("0" :> 48) @@ ("1" :> 49) @@ ("2" :> 50) @@ ("3" :> 51) @@ ("4" :> 52) @@
    ("5" :> 53) @@ ("6" :> 54) @@ ("7" :> 55) @@ ("8" :> 56) @@ ("9" :> 57) @@
    ("." :> 46) @@ ("_" :> 95) @@ ("a" :> 97) @@ ("c" :> 99) @@ ("e" :> 101) @@
    ("n" :> 110) @@ ("p" :> 112) @@ ("s" :> 115) @@ ("y" :> 121)

\* a < b for two Python strings: by the first differing code point, a proper
\* prefix first
LexLess(a, b) ==
    LET n == IF Len(a) < Len(b) THEN Len(a) ELSE Len(b)
        diff == {i \in 1..n : SubSeq(a, i, i) # SubSeq(b, i, i)}
    IN  IF diff = {} THEN Len(a) < Len(b)
        ELSE LET i == CHOOSE m \in diff : \A o \in diff : m <= o
             IN  Ord[SubSeq(a, i, i)] < Ord[SubSeq(b, i, i)]

\* a faulty variant of Namelist: a listing that sorts the names, sorted(zip_file.namelist())
NamelistSorted(z) == SortSeq([i \in 1..Len(z) |-> z[i].name], LexLess)

\* ZipFile.namelist(): the names in the order of the central directory
Namelist(z) == [i \in 1..Len(z) |-> z[i].name]

\* the index of the entry ZipFile.read(name) returns: the last one of that name
EntryIndex(z, name) ==
    CHOOSE i \in 1..Len(z) :
        /\ z[i].name = name
        /\ \A j \in (i + 1)..Len(z) : z[j].name # name

\* def chunker(item): return item[0] // chunk_size
chunker(item, size) == item[1] \div size

(* ----------------------------- smash_numbers -------------------------- *)

\* the characters \d matches: the ASCII digits and, in a str pattern, every
\* other Unicode decimal digit (here ARABIC-INDIC DIGIT THREE)
Digits == {"0", "1", "2", "3", "4", "5", "6", "7", "8", "9", "U+0663"}

IsDigit(c) == c \in Digits

\* the characters of the class [\d.,]
RunChars == Digits \cup {".", ","}

\* a faulty variant of _sub_numbers: every character of the match becomes '#'
SubAllRunChars(m) == [k \in 1..Len(m) |-> "#"]

\* DIGIT_RE.sub('#', match.group(0))
_sub_numbers(m) == [k \in 1..Len(m) |-> IF IsDigit(m[k]) THEN "#" ELSE m[k]]

\* the end of the greedy match of [\d.,]+ that starts at position i
RECURSIVE RunEnd(_, _)
RunEnd(text, i) ==
    IF i < Len(text) /\ text[i + 1] \in RunChars THEN RunEnd(text, i + 1) ELSE i

\* MULTI_DIGIT_RE.sub(_sub_numbers, text) from position i on: the leftmost
\* match of \d[\d.,]+ is replaced and the scan resumes after it
RECURSIVE SubMultiDigit(_, _)
SubMultiDigit(text, i) ==
    IF i > Len(text) THEN <<>>
    ELSE IF IsDigit(text[i]) /\ i < Len(text) /\ text[i + 1] \in RunChars
    THEN LET e == RunEnd(text, i + 1) IN
         _sub_numbers(SubSeq(text, i, e)) \o SubMultiDigit(text, e + 1)
    ELSE <<text[i]>> \o SubMultiDigit(text, i + 1)

smash_numbers(text) ==
    LET replaced == SubMultiDigit(text, 1) IN
    IF replaced # text THEN <<"N", "U", "M", ":">> \o replaced ELSE text

(* ------------------------------ characters ----------------------------- *)

\* A character is a string: an ASCII character stands for itself, any other
\* code point is written "U+" and its four hexadecimal digits (the ASCII
\* double quote is "U+0022", tab "U+0009", newline "U+000A").  A text is a
\* sequence of characters.

HexDigits == "0123456789ABCDEF"

\* the value of one hexadecimal digit
HexDigit(d) == (CHOOSE i \in 1..16 : SubSeq(HexDigits, i, i) = d) - 1

RECURSIVE HexValue(_)
HexValue(s) ==
    IF s = "" THEN 0
    ELSE 16 * HexValue(SubSeq(s, 1, Len(s) - 1)) + HexDigit(SubSeq(s, Len(s), Len(s)))

\* the code point of a character written "U+XXXX"
CodePoint(c) == HexValue(SubSeq(c, 3, Len(c)))

\* the function a sequence of <<key, value>> items denotes; of two items with
\* the same key the later one counts, as in a dict literal and dict.update()
DictOf(items) ==
    [k \in {items[i][1] : i \in DOMAIN items} |->
        items[CHOOSE i \in DOMAIN items :
                /\ items[i][1] = k
                /\ \A j \in DOMAIN items : items[j][1] = k => j <= i][2]]

\* text with every character replaced by the text f gives for it
RECURSIVE Expand(_, _)
Expand(f, text) ==
    IF text = <<>> THEN <<>>
    ELSE (IF Head(text) \in DOMAIN f THEN f[Head(text)] ELSE <<Head(text)>>)
         \o Expand(f, Tail(text))

\* str.replace(old, new) for a one-character old
replace(text, old, new) == Expand(old :> new, text)

(* --------------------- Unicode Character Database ---------------------- *)

\* Canonical_Combining_Class of the combining characters: <<character, class>>
CombiningClassData ==
    <<
    <<"U+0301", 230>>, <<"U+0306", 230>>, <<"U+0307", 230>>, <<"U+0308", 230>>,
    <<"U+030C", 230>>, <<"U+0326", 220>>, <<"U+0327", 202>>, <<"U+0328", 202>>,
    <<"U+05B4", 14>>, <<"U+064B", 27>>, <<"U+0653", 230>>
    >>

\* full canonical decompositions: <<character, decomposition>>
CanonicalData ==
    <<
    <<"U+00C1", <<"A", "U+0301">>>>, <<"U+00C4", <<"A", "U+0308">>>>,
    <<"U+00C7", <<"C", "U+0327">>>>, <<"U+00C9", <<"E", "U+0301">>>>,
    <<"U+00CB", <<"E", "U+0308">>>>, <<"U+00CD", <<"I", "U+0301">>>>,
    <<"U+00CF", <<"I", "U+0308">>>>, <<"U+00D3", <<"O", "U+0301">>>>,
    <<"U+00D6", <<"O", "U+0308">>>>, <<"U+00DA", <<"U", "U+0301">>>>,
    <<"U+00DC", <<"U", "U+0308">>>>, <<"U+00DD", <<"Y", "U+0301">>>>,
    <<"U+00E1", <<"a", "U+0301">>>>, <<"U+00E4", <<"a", "U+0308">>>>,
    <<"U+00E7", <<"c", "U+0327">>>>, <<"U+00E9", <<"e", "U+0301">>>>,
    <<"U+00EB", <<"e", "U+0308">>>>, <<"U+00ED", <<"i", "U+0301">>>>,
    <<"U+00EF", <<"i", "U+0308">>>>, <<"U+00F3", <<"o", "U+0301">>>>,
    <<"U+00F6", <<"o", "U+0308">>>>, <<"U+00FA", <<"u", "U+0301">>>>,
    <<"U+00FC", <<"u", "U+0308">>>>, <<"U+00FD", <<"y", "U+0301">>>>,
    <<"U+00FF", <<"y", "U+0308">>>>, <<"U+0102", <<"A", "U+0306">>>>,
    <<"U+0103", <<"a", "U+0306">>>>, <<"U+0104", <<"A", "U+0328">>>>,
    <<"U+0105", <<"a", "U+0328">>>>, <<"U+0106", <<"C", "U+0301">>>>,
    <<"U+0107", <<"c", "U+0301">>>>, <<"U+010A", <<"C", "U+0307">>>>,
    <<"U+010B", <<"c", "U+0307">>>>, <<"U+010C", <<"C", "U+030C">>>>,
    <<"U+010D", <<"c", "U+030C">>>>, <<"U+010E", <<"D", "U+030C">>>>,
    <<"U+010F", <<"d", "U+030C">>>>, <<"U+0114", <<"E", "U+0306">>>>,
    <<"U+0115", <<"e", "U+0306">>>>, <<"U+0116", <<"E", "U+0307">>>>,
    <<"U+0117", <<"e", "U+0307">>>>, <<"U+0118", <<"E", "U+0328">>>>,
    <<"U+0119", <<"e", "U+0328">>>>, <<"U+011A", <<"E", "U+030C">>>>,
    <<"U+011B", <<"e", "U+030C">>>>, <<"U+011E", <<"G", "U+0306">>>>,
    <<"U+011F", <<"g", "U+0306">>>>, <<"U+0120", <<"G", "U+0307">>>>,
    <<"U+0121", <<"g", "U+0307">>>>, <<"U+0122", <<"G", "U+0327">>>>,
    <<"U+0123", <<"g", "U+0327">>>>, <<"U+012C", <<"I", "U+0306">>>>,
    <<"U+012D", <<"i", "U+0306">>>>, <<"U+012E", <<"I", "U+0328">>>>,
    <<"U+012F", <<"i", "U+0328">>>>, <<"U+0130", <<"I", "U+0307">>>>,
    <<"U+0136", <<"K", "U+0327">>>>, <<"U+0137", <<"k", "U+0327">>>>,
    <<"U+0139", <<"L", "U+0301">>>>, <<"U+013A", <<"l", "U+0301">>>>,
    <<"U+013B", <<"L", "U+0327">>>>, <<"U+013C", <<"l", "U+0327">>>>,
    <<"U+013D", <<"L", "U+030C">>>>, <<"U+013E", <<"l", "U+030C">>>>,
    <<"U+0143", <<"N", "U+0301">>>>, <<"U+0144", <<"n", "U+0301">>>>,
    <<"U+0145", <<"N", "U+0327">>>>, <<"U+0146", <<"n", "U+0327">>>>,
    <<"U+0147", <<"N", "U+030C">>>>, <<"U+0148", <<"n", "U+030C">>>>,
    <<"U+014E", <<"O", "U+0306">>>>, <<"U+014F", <<"o", "U+0306">>>>,
    <<"U+0154", <<"R", "U+0301">>>>, <<"U+0155", <<"r", "U+0301">>>>,
    <<"U+0156", <<"R", "U+0327">>>>, <<"U+0157", <<"r", "U+0327">>>>,
    <<"U+0158", <<"R", "U+030C">>>>, <<"U+0159", <<"r", "U+030C">>>>,
    <<"U+015A", <<"S", "U+0301">>>>, <<"U+015B", <<"s", "U+0301">>>>,
    <<"U+015E", <<"S", "U+0327">>>>, <<"U+015F", <<"s", "U+0327">>>>,
    <<"U+0160", <<"S", "U+030C">>>>, <<"U+0161", <<"s", "U+030C">>>>,
    <<"U+0162", <<"T", "U+0327">>>>, <<"U+0163", <<"t", "U+0327">>>>,
    <<"U+0164", <<"T", "U+030C">>>>, <<"U+0165", <<"t", "U+030C">>>>,
    <<"U+016C", <<"U", "U+0306">>>>, <<"U+016D", <<"u", "U+0306">>>>,
    <<"U+0172", <<"U", "U+0328">>>>, <<"U+0173", <<"u", "U+0328">>>>,
    <<"U+0178", <<"Y", "U+0308">>>>, <<"U+0179", <<"Z", "U+0301">>>>,
    <<"U+017A", <<"z", "U+0301">>>>, <<"U+017B", <<"Z", "U+0307">>>>,
    <<"U+017C", <<"z", "U+0307">>>>, <<"U+017D", <<"Z", "U+030C">>>>,
    <<"U+017E", <<"z", "U+030C">>>>, <<"U+01CD", <<"A", "U+030C">>>>,
    <<"U+01CE", <<"a", "U+030C">>>>, <<"U+01CF", <<"I", "U+030C">>>>,
    <<"U+01D0", <<"i", "U+030C">>>>, <<"U+01D1", <<"O", "U+030C">>>>,
    <<"U+01D2", <<"o", "U+030C">>>>, <<"U+01D3", <<"U", "U+030C">>>>,
    <<"U+01D4", <<"u", "U+030C">>>>, <<"U+01D7", <<"U", "U+0308", "U+0301">>>>,
    <<"U+01D8", <<"u", "U+0308", "U+0301">>>>, <<"U+01D9", <<"U", "U+0308", "U+030C">>>>,
    <<"U+01DA", <<"u", "U+0308", "U+030C">>>>, <<"U+01E6", <<"G", "U+030C">>>>,
    <<"U+01E7", <<"g", "U+030C">>>>, <<"U+01E8", <<"K", "U+030C">>>>,
    <<"U+01E9", <<"k", "U+030C">>>>, <<"U+01EA", <<"O", "U+0328">>>>,
    <<"U+01EB", <<"o", "U+0328">>>>, <<"U+01F0", <<"j", "U+030C">>>>,
    <<"U+01F4", <<"G", "U+0301">>>>, <<"U+01F5", <<"g", "U+0301">>>>,
    <<"U+0218", <<"S", "U+0326">>>>, <<"U+0219", <<"s", "U+0326">>>>,
    <<"U+021A", <<"T", "U+0326">>>>, <<"U+021B", <<"t", "U+0326">>>>,
    <<"U+021E", <<"H", "U+030C">>>>, <<"U+021F", <<"h", "U+030C">>>>,
    <<"U+0226", <<"A", "U+0307">>>>, <<"U+0227", <<"a", "U+0307">>>>,
    <<"U+0228", <<"E", "U+0327">>>>, <<"U+0229", <<"e", "U+0327">>>>,
    <<"U+022E", <<"O", "U+0307">>>>, <<"U+022F", <<"o", "U+0307">>>>,
    <<"U+0385", <<"U+00A8", "U+0301">>>>, <<"U+0401", <<"U+0415", "U+0308">>>>,
    <<"U+0403", <<"U+0413", "U+0301">>>>, <<"U+0407", <<"U+0406", "U+0308">>>>,
    <<"U+040C", <<"U+041A", "U+0301">>>>, <<"U+040E", <<"U+0423", "U+0306">>>>,
    <<"U+0419", <<"U+0418", "U+0306">>>>, <<"U+0439", <<"U+0438", "U+0306">>>>,
    <<"U+0451", <<"U+0435", "U+0308">>>>, <<"U+0453", <<"U+0433", "U+0301">>>>,
    <<"U+0457", <<"U+0456", "U+0308">>>>, <<"U+045C", <<"U+043A", "U+0301">>>>,
    <<"U+045E", <<"U+0443", "U+0306">>>>, <<"U+04C1", <<"U+0416", "U+0306">>>>,
    <<"U+04C2", <<"U+0436", "U+0306">>>>, <<"U+04D0", <<"U+0410", "U+0306">>>>,
    <<"U+04D1", <<"U+0430", "U+0306">>>>, <<"U+04D2", <<"U+0410", "U+0308">>>>,
    <<"U+04D3", <<"U+0430", "U+0308">>>>, <<"U+04D6", <<"U+0415", "U+0306">>>>,
    <<"U+04D7", <<"U+0435", "U+0306">>>>, <<"U+04DA", <<"U+04D8", "U+0308">>>>,
    <<"U+04DB", <<"U+04D9", "U+0308">>>>, <<"U+04DC", <<"U+0416", "U+0308">>>>,
    <<"U+04DD", <<"U+0436", "U+0308">>>>, <<"U+04DE", <<"U+0417", "U+0308">>>>,
    <<"U+04DF", <<"U+0437", "U+0308">>>>, <<"U+04E4", <<"U+0418", "U+0308">>>>,
    <<"U+04E5", <<"U+0438", "U+0308">>>>, <<"U+04E6", <<"U+041E", "U+0308">>>>,
    <<"U+04E7", <<"U+043E", "U+0308">>>>, <<"U+04EA", <<"U+04E8", "U+0308">>>>,
    <<"U+04EB", <<"U+04E9", "U+0308">>>>, <<"U+04EC", <<"U+042D", "U+0308">>>>,
    <<"U+04ED", <<"U+044D", "U+0308">>>>, <<"U+04F0", <<"U+0423", "U+0308">>>>,
    <<"U+04F1", <<"U+0443", "U+0308">>>>, <<"U+04F4", <<"U+0427", "U+0308">>>>,
    <<"U+04F5", <<"U+0447", "U+0308">>>>, <<"U+04F8", <<"U+042B", "U+0308">>>>,
    <<"U+04F9", <<"U+044B", "U+0308">>>>, <<"U+0622", <<"U+0627", "U+0653">>>>,
    <<"U+1E02", <<"B", "U+0307">>>>, <<"U+1E03", <<"b", "U+0307">>>>,
    <<"U+1E08", <<"C", "U+0327", "U+0301">>>>, <<"U+1E09", <<"c", "U+0327", "U+0301">>>>,
    <<"U+1E0A", <<"D", "U+0307">>>>, <<"U+1E0B", <<"d", "U+0307">>>>,
    <<"U+1E10", <<"D", "U+0327">>>>, <<"U+1E11", <<"d", "U+0327">>>>,
    <<"U+1E1C", <<"E", "U+0327", "U+0306">>>>, <<"U+1E1D", <<"e", "U+0327", "U+0306">>>>,
    <<"U+1E1E", <<"F", "U+0307">>>>, <<"U+1E1F", <<"f", "U+0307">>>>,
    <<"U+1E22", <<"H", "U+0307">>>>, <<"U+1E23", <<"h", "U+0307">>>>,
    <<"U+1E26", <<"H", "U+0308">>>>, <<"U+1E27", <<"h", "U+0308">>>>,
    <<"U+1E28", <<"H", "U+0327">>>>, <<"U+1E29", <<"h", "U+0327">>>>,
    <<"U+1E2E", <<"I", "U+0308", "U+0301">>>>, <<"U+1E2F", <<"i", "U+0308", "U+0301">>>>,
    <<"U+1E30", <<"K", "U+0301">>>>, <<"U+1E31", <<"k", "U+0301">>>>,
    <<"U+1E3E", <<"M", "U+0301">>>>, <<"U+1E3F", <<"m", "U+0301">>>>,
    <<"U+1E40", <<"M", "U+0307">>>>, <<"U+1E41", <<"m", "U+0307">>>>,
    <<"U+1E44", <<"N", "U+0307">>>>, <<"U+1E45", <<"n", "U+0307">>>>,
    <<"U+1E54", <<"P", "U+0301">>>>, <<"U+1E55", <<"p", "U+0301">>>>,
    <<"U+1E56", <<"P", "U+0307">>>>, <<"U+1E57", <<"p", "U+0307">>>>,
    <<"U+1E58", <<"R", "U+0307">>>>, <<"U+1E59", <<"r", "U+0307">>>>,
    <<"U+1E60", <<"S", "U+0307">>>>, <<"U+1E61", <<"s", "U+0307">>>>,
    <<"U+1E64", <<"S", "U+0301", "U+0307">>>>, <<"U+1E65", <<"s", "U+0301", "U+0307">>>>,
    <<"U+1E66", <<"S", "U+030C", "U+0307">>>>, <<"U+1E67", <<"s", "U+030C", "U+0307">>>>,
    <<"U+1E6A", <<"T", "U+0307">>>>, <<"U+1E6B", <<"t", "U+0307">>>>,
    <<"U+1E82", <<"W", "U+0301">>>>, <<"U+1E83", <<"w", "U+0301">>>>,
    <<"U+1E84", <<"W", "U+0308">>>>, <<"U+1E85", <<"w", "U+0308">>>>,
    <<"U+1E86", <<"W", "U+0307">>>>, <<"U+1E87", <<"w", "U+0307">>>>,
    <<"U+1E8A", <<"X", "U+0307">>>>, <<"U+1E8B", <<"x", "U+0307">>>>,
    <<"U+1E8C", <<"X", "U+0308">>>>, <<"U+1E8D", <<"x", "U+0308">>>>,
    <<"U+1E8E", <<"Y", "U+0307">>>>, <<"U+1E8F", <<"y", "U+0307">>>>,
    <<"U+1E97", <<"t", "U+0308">>>>, <<"U+1EAE", <<"A", "U+0306", "U+0301">>>>,
    <<"U+1EAF", <<"a", "U+0306", "U+0301">>>>
    >>

\* full compatibility decompositions that differ from the canonical ones
CompatibilityData ==
    <<
    <<"U+00A0", <<" ">>>>, <<"U+00A8", <<" ", "U+0308">>>>,
    <<"U+0385", <<" ", "U+0308", "U+0301">>>>, <<"U+FF1A", <<":">>>>, <<"U+FF2D", <<"M">>>>,
    <<"U+FF2E", <<"N">>>>, <<"U+FF35", <<"U">>>>, <<"U+FF4D", <<"m">>>>, <<"U+FF4E", <<"n">>>>,
    <<"U+FF55", <<"u">>>>
    >>

\* primary composites: <<first, second, composite>>
CompositionData ==
    <<
    <<"A", "U+0301", "U+00C1">>, <<"A", "U+0308", "U+00C4">>, <<"C", "U+0327", "U+00C7">>,
    <<"E", "U+0301", "U+00C9">>, <<"E", "U+0308", "U+00CB">>, <<"I", "U+0301", "U+00CD">>,
    <<"I", "U+0308", "U+00CF">>, <<"O", "U+0301", "U+00D3">>, <<"O", "U+0308", "U+00D6">>,
    <<"U", "U+0301", "U+00DA">>, <<"U", "U+0308", "U+00DC">>, <<"Y", "U+0301", "U+00DD">>,
    <<"a", "U+0301", "U+00E1">>, <<"a", "U+0308", "U+00E4">>, <<"c", "U+0327", "U+00E7">>,
    <<"e", "U+0301", "U+00E9">>, <<"e", "U+0308", "U+00EB">>, <<"i", "U+0301", "U+00ED">>,
    <<"i", "U+0308", "U+00EF">>, <<"o", "U+0301", "U+00F3">>, <<"o", "U+0308", "U+00F6">>,
    <<"u", "U+0301", "U+00FA">>, <<"u", "U+0308", "U+00FC">>, <<"y", "U+0301", "U+00FD">>,
    <<"y", "U+0308", "U+00FF">>, <<"A", "U+0306", "U+0102">>, <<"a", "U+0306", "U+0103">>,
    <<"A", "U+0328", "U+0104">>, <<"a", "U+0328", "U+0105">>, <<"C", "U+0301", "U+0106">>,
    <<"c", "U+0301", "U+0107">>, <<"C", "U+0307", "U+010A">>, <<"c", "U+0307", "U+010B">>,
    <<"C", "U+030C", "U+010C">>, <<"c", "U+030C", "U+010D">>, <<"D", "U+030C", "U+010E">>,
    <<"d", "U+030C", "U+010F">>, <<"E", "U+0306", "U+0114">>, <<"e", "U+0306", "U+0115">>,
    <<"E", "U+0307", "U+0116">>, <<"e", "U+0307", "U+0117">>, <<"E", "U+0328", "U+0118">>,
    <<"e", "U+0328", "U+0119">>, <<"E", "U+030C", "U+011A">>, <<"e", "U+030C", "U+011B">>,
    <<"G", "U+0306", "U+011E">>, <<"g", "U+0306", "U+011F">>, <<"G", "U+0307", "U+0120">>,
    <<"g", "U+0307", "U+0121">>, <<"G", "U+0327", "U+0122">>, <<"g", "U+0327", "U+0123">>,
    <<"I", "U+0306", "U+012C">>, <<"i", "U+0306", "U+012D">>, <<"I", "U+0328", "U+012E">>,
    <<"i", "U+0328", "U+012F">>, <<"I", "U+0307", "U+0130">>, <<"K", "U+0327", "U+0136">>,
    <<"k", "U+0327", "U+0137">>, <<"L", "U+0301", "U+0139">>, <<"l", "U+0301", "U+013A">>,
    <<"L", "U+0327", "U+013B">>, <<"l", "U+0327", "U+013C">>, <<"L", "U+030C", "U+013D">>,
    <<"l", "U+030C", "U+013E">>, <<"N", "U+0301", "U+0143">>, <<"n", "U+0301", "U+0144">>,
    <<"N", "U+0327", "U+0145">>, <<"n", "U+0327", "U+0146">>, <<"N", "U+030C", "U+0147">>,
    <<"n", "U+030C", "U+0148">>, <<"O", "U+0306", "U+014E">>, <<"o", "U+0306", "U+014F">>,
    <<"R", "U+0301", "U+0154">>, <<"r", "U+0301", "U+0155">>, <<"R", "U+0327", "U+0156">>,
    <<"r", "U+0327", "U+0157">>, <<"R", "U+030C", "U+0158">>, <<"r", "U+030C", "U+0159">>,
    <<"S", "U+0301", "U+015A">>, <<"s", "U+0301", "U+015B">>, <<"S", "U+0327", "U+015E">>,
    <<"s", "U+0327", "U+015F">>, <<"S", "U+030C", "U+0160">>, <<"s", "U+030C", "U+0161">>,
    <<"T", "U+0327", "U+0162">>, <<"t", "U+0327", "U+0163">>, <<"T", "U+030C", "U+0164">>,
    <<"t", "U+030C", "U+0165">>, <<"U", "U+0306", "U+016C">>, <<"u", "U+0306", "U+016D">>,
    <<"U", "U+0328", "U+0172">>, <<"u", "U+0328", "U+0173">>, <<"Y", "U+0308", "U+0178">>,
    <<"Z", "U+0301", "U+0179">>, <<"z", "U+0301", "U+017A">>, <<"Z", "U+0307", "U+017B">>,
    <<"z", "U+0307", "U+017C">>, <<"Z", "U+030C", "U+017D">>, <<"z", "U+030C", "U+017E">>,
    <<"A", "U+030C", "U+01CD">>, <<"a", "U+030C", "U+01CE">>, <<"I", "U+030C", "U+01CF">>,
    <<"i", "U+030C", "U+01D0">>, <<"O", "U+030C", "U+01D1">>, <<"o", "U+030C", "U+01D2">>,
    <<"U", "U+030C", "U+01D3">>, <<"u", "U+030C", "U+01D4">>, <<"U+00DC", "U+0301", "U+01D7">>,
    <<"U+00FC", "U+0301", "U+01D8">>, <<"U+00DC", "U+030C", "U+01D9">>,
    <<"U+00FC", "U+030C", "U+01DA">>, <<"G", "U+030C", "U+01E6">>, <<"g", "U+030C", "U+01E7">>,
    <<"K", "U+030C", "U+01E8">>, <<"k", "U+030C", "U+01E9">>, <<"O", "U+0328", "U+01EA">>,
    <<"o", "U+0328", "U+01EB">>, <<"j", "U+030C", "U+01F0">>, <<"G", "U+0301", "U+01F4">>,
    <<"g", "U+0301", "U+01F5">>, <<"S", "U+0326", "U+0218">>, <<"s", "U+0326", "U+0219">>,
    <<"T", "U+0326", "U+021A">>, <<"t", "U+0326", "U+021B">>, <<"H", "U+030C", "U+021E">>,
    <<"h", "U+030C", "U+021F">>, <<"A", "U+0307", "U+0226">>, <<"a", "U+0307", "U+0227">>,
    <<"E", "U+0327", "U+0228">>, <<"e", "U+0327", "U+0229">>, <<"O", "U+0307", "U+022E">>,
    <<"o", "U+0307", "U+022F">>, <<"U+00A8", "U+0301", "U+0385">>,
    <<"U+0415", "U+0308", "U+0401">>, <<"U+0413", "U+0301", "U+0403">>,
    <<"U+0406", "U+0308", "U+0407">>, <<"U+041A", "U+0301", "U+040C">>,
    <<"U+0423", "U+0306", "U+040E">>, <<"U+0418", "U+0306", "U+0419">>,
    <<"U+0438", "U+0306", "U+0439">>, <<"U+0435", "U+0308", "U+0451">>,
    <<"U+0433", "U+0301", "U+0453">>, <<"U+0456", "U+0308", "U+0457">>,
    <<"U+043A", "U+0301", "U+045C">>, <<"U+0443", "U+0306", "U+045E">>,
    <<"U+0416", "U+0306", "U+04C1">>, <<"U+0436", "U+0306", "U+04C2">>,
    <<"U+0410", "U+0306", "U+04D0">>, <<"U+0430", "U+0306", "U+04D1">>,
    <<"U+0410", "U+0308", "U+04D2">>, <<"U+0430", "U+0308", "U+04D3">>,
    <<"U+0415", "U+0306", "U+04D6">>, <<"U+0435", "U+0306", "U+04D7">>,
    <<"U+04D8", "U+0308", "U+04DA">>, <<"U+04D9", "U+0308", "U+04DB">>,
    <<"U+0416", "U+0308", "U+04DC">>, <<"U+0436", "U+0308", "U+04DD">>,
    <<"U+0417", "U+0308", "U+04DE">>, <<"U+0437", "U+0308", "U+04DF">>,
    <<"U+0418", "U+0308", "U+04E4">>, <<"U+0438", "U+0308", "U+04E5">>,
    <<"U+041E", "U+0308", "U+04E6">>, <<"U+043E", "U+0308", "U+04E7">>,
    <<"U+04E8", "U+0308", "U+04EA">>, <<"U+04E9", "U+0308", "U+04EB">>,
    <<"U+042D", "U+0308", "U+04EC">>, <<"U+044D", "U+0308", "U+04ED">>,
    <<"U+0423", "U+0308", "U+04F0">>, <<"U+0443", "U+0308", "U+04F1">>,
    <<"U+0427", "U+0308", "U+04F4">>, <<"U+0447", "U+0308", "U+04F5">>,
    <<"U+042B", "U+0308", "U+04F8">>, <<"U+044B", "U+0308", "U+04F9">>,
    <<"U+0627", "U+0653", "U+0622">>, <<"B", "U+0307", "U+1E02">>, <<"b", "U+0307", "U+1E03">>,
    <<"U+00C7", "U+0301", "U+1E08">>, <<"U+00E7", "U+0301", "U+1E09">>,
    <<"D", "U+0307", "U+1E0A">>, <<"d", "U+0307", "U+1E0B">>, <<"D", "U+0327", "U+1E10">>,
    <<"d", "U+0327", "U+1E11">>, <<"U+0228", "U+0306", "U+1E1C">>,
    <<"U+0229", "U+0306", "U+1E1D">>, <<"F", "U+0307", "U+1E1E">>, <<"f", "U+0307", "U+1E1F">>,
    <<"H", "U+0307", "U+1E22">>, <<"h", "U+0307", "U+1E23">>, <<"H", "U+0308", "U+1E26">>,
    <<"h", "U+0308", "U+1E27">>, <<"H", "U+0327", "U+1E28">>, <<"h", "U+0327", "U+1E29">>,
    <<"U+00CF", "U+0301", "U+1E2E">>, <<"U+00EF", "U+0301", "U+1E2F">>,
    <<"K", "U+0301", "U+1E30">>, <<"k", "U+0301", "U+1E31">>, <<"M", "U+0301", "U+1E3E">>,
    <<"m", "U+0301", "U+1E3F">>, <<"M", "U+0307", "U+1E40">>, <<"m", "U+0307", "U+1E41">>,
    <<"N", "U+0307", "U+1E44">>, <<"n", "U+0307", "U+1E45">>, <<"P", "U+0301", "U+1E54">>,
    <<"p", "U+0301", "U+1E55">>, <<"P", "U+0307", "U+1E56">>, <<"p", "U+0307", "U+1E57">>,
    <<"R", "U+0307", "U+1E58">>, <<"r", "U+0307", "U+1E59">>, <<"S", "U+0307", "U+1E60">>,
    <<"s", "U+0307", "U+1E61">>, <<"U+015A", "U+0307", "U+1E64">>,
    <<"U+015B", "U+0307", "U+1E65">>, <<"U+0160", "U+0307", "U+1E66">>,
    <<"U+0161", "U+0307", "U+1E67">>, <<"T", "U+0307", "U+1E6A">>, <<"t", "U+0307", "U+1E6B">>,
    <<"W", "U+0301", "U+1E82">>, <<"w", "U+0301", "U+1E83">>, <<"W", "U+0308", "U+1E84">>,
    <<"w", "U+0308", "U+1E85">>, <<"W", "U+0307", "U+1E86">>, <<"w", "U+0307", "U+1E87">>,
    <<"X", "U+0307", "U+1E8A">>, <<"x", "U+0307", "U+1E8B">>, <<"X", "U+0308", "U+1E8C">>,
    <<"x", "U+0308", "U+1E8D">>, <<"Y", "U+0307", "U+1E8E">>, <<"y", "U+0307", "U+1E8F">>,
    <<"t", "U+0308", "U+1E97">>, <<"U+0102", "U+0301", "U+1EAE">>,
    <<"U+0103", "U+0301", "U+1EAF">>
    >>

\* full case foldings: <<character, folding>>
CaseFoldingData ==
    <<
    <<"A", <<"a">>>>, <<"B", <<"b">>>>, <<"C", <<"c">>>>, <<"D", <<"d">>>>, <<"E", <<"e">>>>,
    <<"F", <<"f">>>>, <<"G", <<"g">>>>, <<"H", <<"h">>>>, <<"I", <<"i">>>>, <<"J", <<"j">>>>,
    <<"K", <<"k">>>>, <<"L", <<"l">>>>, <<"M", <<"m">>>>, <<"N", <<"n">>>>, <<"O", <<"o">>>>,
    <<"P", <<"p">>>>, <<"Q", <<"q">>>>, <<"R", <<"r">>>>, <<"S", <<"s">>>>, <<"T", <<"t">>>>,
    <<"U", <<"u">>>>, <<"V", <<"v">>>>, <<"W", <<"w">>>>, <<"X", <<"x">>>>, <<"Y", <<"y">>>>,
    <<"Z", <<"z">>>>, <<"U+00C1", <<"U+00E1">>>>, <<"U+00C4", <<"U+00E4">>>>,
    <<"U+00C7", <<"U+00E7">>>>, <<"U+00C9", <<"U+00E9">>>>, <<"U+00CB", <<"U+00EB">>>>,
    <<"U+00CD", <<"U+00ED">>>>, <<"U+00CF", <<"U+00EF">>>>, <<"U+00D3", <<"U+00F3">>>>,
    <<"U+00D6", <<"U+00F6">>>>, <<"U+00DA", <<"U+00FA">>>>, <<"U+00DC", <<"U+00FC">>>>,
    <<"U+00DD", <<"U+00FD">>>>, <<"U+00DF", <<"s", "s">>>>, <<"U+0102", <<"U+0103">>>>,
    <<"U+0104", <<"U+0105">>>>, <<"U+0106", <<"U+0107">>>>, <<"U+010A", <<"U+010B">>>>,
    <<"U+010C", <<"U+010D">>>>, <<"U+010E", <<"U+010F">>>>, <<"U+0110", <<"U+0111">>>>,
    <<"U+0114", <<"U+0115">>>>, <<"U+0116", <<"U+0117">>>>, <<"U+0118", <<"U+0119">>>>,
    <<"U+011A", <<"U+011B">>>>, <<"U+011E", <<"U+011F">>>>, <<"U+0120", <<"U+0121">>>>,
    <<"U+0122", <<"U+0123">>>>, <<"U+012C", <<"U+012D">>>>, <<"U+012E", <<"U+012F">>>>,
    <<"U+0130", <<"i", "U+0307">>>>, <<"U+0136", <<"U+0137">>>>, <<"U+0139", <<"U+013A">>>>,
    <<"U+013B", <<"U+013C">>>>, <<"U+013D", <<"U+013E">>>>, <<"U+0143", <<"U+0144">>>>,
    <<"U+0145", <<"U+0146">>>>, <<"U+0147", <<"U+0148">>>>, <<"U+014E", <<"U+014F">>>>,
    <<"U+0154", <<"U+0155">>>>, <<"U+0156", <<"U+0157">>>>, <<"U+0158", <<"U+0159">>>>,
    <<"U+015A", <<"U+015B">>>>, <<"U+015E", <<"U+015F">>>>, <<"U+0160", <<"U+0161">>>>,
    <<"U+0162", <<"U+0163">>>>, <<"U+0164", <<"U+0165">>>>, <<"U+016C", <<"U+016D">>>>,
    <<"U+0172", <<"U+0173">>>>, <<"U+0178", <<"U+00FF">>>>, <<"U+0179", <<"U+017A">>>>,
    <<"U+017B", <<"U+017C">>>>, <<"U+017D", <<"U+017E">>>>, <<"U+018F", <<"U+0259">>>>,
    <<"U+01CD", <<"U+01CE">>>>, <<"U+01CF", <<"U+01D0">>>>, <<"U+01D1", <<"U+01D2">>>>,
    <<"U+01D3", <<"U+01D4">>>>, <<"U+01D7", <<"U+01D8">>>>, <<"U+01D9", <<"U+01DA">>>>,
    <<"U+01E6", <<"U+01E7">>>>, <<"U+01E8", <<"U+01E9">>>>, <<"U+01EA", <<"U+01EB">>>>,
    <<"U+01F0", <<"j", "U+030C">>>>, <<"U+01F4", <<"U+01F5">>>>, <<"U+0218", <<"U+0219">>>>,
    <<"U+021A", <<"U+021B">>>>, <<"U+021E", <<"U+021F">>>>, <<"U+0226", <<"U+0227">>>>,
    <<"U+0228", <<"U+0229">>>>, <<"U+022E", <<"U+022F">>>>, <<"U+0401", <<"U+0451">>>>,
    <<"U+0402", <<"U+0452">>>>, <<"U+0403", <<"U+0453">>>>, <<"U+0404", <<"U+0454">>>>,
    <<"U+0405", <<"U+0455">>>>, <<"U+0406", <<"U+0456">>>>, <<"U+0407", <<"U+0457">>>>,
    <<"U+0408", <<"U+0458">>>>, <<"U+0409", <<"U+0459">>>>, <<"U+040A", <<"U+045A">>>>,
    <<"U+040B", <<"U+045B">>>>, <<"U+040C", <<"U+045C">>>>, <<"U+040E", <<"U+045E">>>>,
    <<"U+040F", <<"U+045F">>>>, <<"U+0410", <<"U+0430">>>>, <<"U+0411", <<"U+0431">>>>,
    <<"U+0412", <<"U+0432">>>>, <<"U+0413", <<"U+0433">>>>, <<"U+0414", <<"U+0434">>>>,
    <<"U+0415", <<"U+0435">>>>, <<"U+0416", <<"U+0436">>>>, <<"U+0417", <<"U+0437">>>>,
    <<"U+0418", <<"U+0438">>>>, <<"U+0419", <<"U+0439">>>>, <<"U+041A", <<"U+043A">>>>,
    <<"U+041B", <<"U+043B">>>>, <<"U+041C", <<"U+043C">>>>, <<"U+041D", <<"U+043D">>>>,
    <<"U+041E", <<"U+043E">>>>, <<"U+041F", <<"U+043F">>>>, <<"U+0420", <<"U+0440">>>>,
    <<"U+0421", <<"U+0441">>>>, <<"U+0422", <<"U+0442">>>>, <<"U+0423", <<"U+0443">>>>,
    <<"U+0424", <<"U+0444">>>>, <<"U+0425", <<"U+0445">>>>, <<"U+0426", <<"U+0446">>>>,
    <<"U+0427", <<"U+0447">>>>, <<"U+0428", <<"U+0448">>>>, <<"U+0429", <<"U+0449">>>>,
    <<"U+042A", <<"U+044A">>>>, <<"U+042B", <<"U+044B">>>>, <<"U+042C", <<"U+044C">>>>,
    <<"U+042D", <<"U+044D">>>>, <<"U+042E", <<"U+044E">>>>, <<"U+042F", <<"U+044F">>>>,
    <<"U+0462", <<"U+0463">>>>, <<"U+0464", <<"U+0465">>>>, <<"U+0466", <<"U+0467">>>>,
    <<"U+0468", <<"U+0469">>>>, <<"U+046A", <<"U+046B">>>>, <<"U+046C", <<"U+046D">>>>,
    <<"U+0490", <<"U+0491">>>>, <<"U+0492", <<"U+0493">>>>, <<"U+049A", <<"U+049B">>>>,
    <<"U+049C", <<"U+049D">>>>, <<"U+04A2", <<"U+04A3">>>>, <<"U+04AE", <<"U+04AF">>>>,
    <<"U+04B0", <<"U+04B1">>>>, <<"U+04B6", <<"U+04B7">>>>, <<"U+04B8", <<"U+04B9">>>>,
    <<"U+04BA", <<"U+04BB">>>>, <<"U+04C1", <<"U+04C2">>>>, <<"U+04D0", <<"U+04D1">>>>,
    <<"U+04D2", <<"U+04D3">>>>, <<"U+04D6", <<"U+04D7">>>>, <<"U+04D8", <<"U+04D9">>>>,
    <<"U+04DA", <<"U+04DB">>>>, <<"U+04DC", <<"U+04DD">>>>, <<"U+04DE", <<"U+04DF">>>>,
    <<"U+04E4", <<"U+04E5">>>>, <<"U+04E6", <<"U+04E7">>>>, <<"U+04E8", <<"U+04E9">>>>,
    <<"U+04EA", <<"U+04EB">>>>, <<"U+04EC", <<"U+04ED">>>>, <<"U+04F0", <<"U+04F1">>>>,
    <<"U+04F4", <<"U+04F5">>>>, <<"U+04F8", <<"U+04F9">>>>, <<"U+1C80", <<"U+0432">>>>,
    <<"U+1E02", <<"U+1E03">>>>, <<"U+1E08", <<"U+1E09">>>>, <<"U+1E0A", <<"U+1E0B">>>>,
    <<"U+1E10", <<"U+1E11">>>>, <<"U+1E1C", <<"U+1E1D">>>>, <<"U+1E1E", <<"U+1E1F">>>>,
    <<"U+1E22", <<"U+1E23">>>>, <<"U+1E26", <<"U+1E27">>>>, <<"U+1E28", <<"U+1E29">>>>,
    <<"U+1E2E", <<"U+1E2F">>>>, <<"U+1E30", <<"U+1E31">>>>, <<"U+1E3E", <<"U+1E3F">>>>,
    <<"U+1E40", <<"U+1E41">>>>, <<"U+1E44", <<"U+1E45">>>>, <<"U+1E54", <<"U+1E55">>>>,
    <<"U+1E56", <<"U+1E57">>>>, <<"U+1E58", <<"U+1E59">>>>, <<"U+1E60", <<"U+1E61">>>>,
    <<"U+1E64", <<"U+1E65">>>>, <<"U+1E66", <<"U+1E67">>>>, <<"U+1E6A", <<"U+1E6B">>>>,
    <<"U+1E82", <<"U+1E83">>>>, <<"U+1E84", <<"U+1E85">>>>, <<"U+1E86", <<"U+1E87">>>>,
    <<"U+1E8A", <<"U+1E8B">>>>, <<"U+1E8C", <<"U+1E8D">>>>, <<"U+1E8E", <<"U+1E8F">>>>,
    <<"U+1E97", <<"t", "U+0308">>>>, <<"U+1EAE", <<"U+1EAF">>>>, <<"U+FF2D", <<"U+FF4D">>>>,
    <<"U+FF2E", <<"U+FF4E">>>>, <<"U+FF35", <<"U+FF55">>>>
    >>

\* the characters str.strip() removes
Whitespace == {"U+0009", "U+000A", " ", "U+00A0"}

(* -------------------- unicodedata.normalize, str methods --------------- *)

CombiningClass == DictOf(CombiningClassData)

\* the Canonical_Combining_Class of a character; 0 marks a starter
ccc(c) == IF c \in DOMAIN CombiningClass THEN CombiningClass[c] ELSE 0

Canonical == DictOf(CanonicalData)

Compatibility == DictOf(CompatibilityData) @@ Canonical

Composition ==
    [p \in {<<CompositionData[i][1], CompositionData[i][2]>> : i \in DOMAIN CompositionData} |->
        CompositionData[CHOOSE i \in DOMAIN CompositionData :
            <<CompositionData[i][1], CompositionData[i][2]>> = p][3]]

CaseFolding == DictOf(CaseFoldingData)

\* the canonical ordering: a combining character moves in front of a
\* neighbour of a higher class until no such pair is left
RECURSIVE Reorder(_)
Reorder(text) ==
    LET Swaps == {i \in 1..(Len(text) - 1) :
                    ccc(text[i]) > ccc(text[i + 1]) /\ ccc(text[i + 1]) > 0} IN
    IF Swaps = {} THEN text
    ELSE LET i == CHOOSE i \in Swaps : \A j \in Swaps : i <= j IN
         Reorder([text EXCEPT ![i] = text[i + 1], ![i + 1] = text[i]])

\* the canonical composition of a decomposed, ordered text: out is what is
\* composed so far, starter the position in out of its last starter (0: none);
\* a character combines with that starter unless a character of an equal or
\* higher class stands between them
RECURSIVE Compose(_, _, _)
Compose(out, starter, rest) ==
    IF rest = <<>> THEN out
    ELSE LET ch == Head(rest)
             unblocked == starter # 0
                          /\ (Len(out) = starter \/ ccc(out[Len(out)]) < ccc(ch))
         IN  IF unblocked /\ <<out[starter], ch>> \in DOMAIN Composition
             THEN Compose([out EXCEPT ![starter] = Composition[<<out[starter], ch>>]],
                          starter, Tail(rest))
             ELSE Compose(Append(out, ch),
                          IF ccc(ch) = 0 THEN Len(out) + 1 ELSE starter, Tail(rest))

\* unicodedata.normalize(form, text) for the forms NFC and NFKC
normalize(form, text) ==
    Compose(<<>>, 0, Reorder(Expand(IF form = "NFC" THEN Canonical ELSE Compatibility, text)))

\* a faulty variant of casefold: the text keeps its case
KeepCase(text) == text

\* str.casefold()
casefold(text) == Expand(CaseFolding, text)

\* str.strip()
RECURSIVE strip(_)
strip(text) ==
    IF text = <<>> THEN text
    ELSE IF Head(text) \in Whitespace THEN strip(Tail(text))
    ELSE IF text[Len(text)] \in Whitespace THEN strip(SubSeq(text, 1, Len(text) - 1))
    ELSE text

\* ftfy.fixes.uncurl_quotes: the single quotes U+02BC and U+2018..U+201B become
\* the apostrophe, the double quotes U+201C..U+201F the ASCII double quote
SINGLE_QUOTE_RE(c) ==
    /\ Len(c) > 1
    /\ \/ CodePoint(c) = HexValue("02BC")
       \/ CodePoint(c) \in HexValue("2018")..HexValue("201B")

DOUBLE_QUOTE_RE(c) == Len(c) > 1 /\ CodePoint(c) \in HexValue("201C")..HexValue("201F")

uncurl_quotes(text) ==
    [i \in 1..Len(text) |->
        IF SINGLE_QUOTE_RE(text[i]) THEN "'"
        ELSE IF DOUBLE_QUOTE_RE(text[i]) THEN "U+0022" ELSE text[i]]

(* ----------------------------- transliterate --------------------------- *)

\* the items of the SR_LATN_TABLE literal in source order: <<key, replacement>>
SR_LATN_ITEMS ==
    <<
    <<"U+0410", <<"A">>>>, <<"U+0430", <<"a">>>>, <<"U+0411", <<"B">>>>, <<"U+0431", <<"b">>>>,
    <<"U+0412", <<"V">>>>, <<"U+0432", <<"v">>>>, <<"U+0413", <<"G">>>>, <<"U+0433", <<"g">>>>,
    <<"U+0414", <<"D">>>>, <<"U+0434", <<"d">>>>, <<"U+0402", <<"U+0110">>>>,
    <<"U+0452", <<"U+0111">>>>, <<"U+0415", <<"E">>>>, <<"U+0435", <<"e">>>>,
    <<"U+0416", <<"U+017D">>>>, <<"U+0436", <<"U+017E">>>>, <<"U+0417", <<"Z">>>>,
    <<"U+0437", <<"z">>>>, <<"U+0418", <<"I">>>>, <<"U+0438", <<"i">>>>, <<"U+0408", <<"J">>>>,
    <<"U+0458", <<"j">>>>, <<"U+041A", <<"K">>>>, <<"U+043A", <<"k">>>>, <<"U+041B", <<"L">>>>,
    <<"U+043B", <<"l">>>>, <<"U+0409", <<"L", "j">>>>, <<"U+0459", <<"l", "j">>>>,
    <<"U+041C", <<"M">>>>, <<"U+043C", <<"m">>>>, <<"U+041D", <<"N">>>>, <<"U+043D", <<"n">>>>,
    <<"U+040A", <<"N", "j">>>>, <<"U+045A", <<"n", "j">>>>, <<"U+041E", <<"O">>>>,
    <<"U+043E", <<"o">>>>, <<"U+041F", <<"P">>>>, <<"U+043F", <<"p">>>>, <<"U+0420", <<"R">>>>,
    <<"U+0440", <<"r">>>>, <<"U+0421", <<"S">>>>, <<"U+0441", <<"s">>>>, <<"U+0422", <<"T">>>>,
    <<"U+0442", <<"t">>>>, <<"U+040B", <<"U+0106">>>>, <<"U+045B", <<"U+0107">>>>,
    <<"U+0423", <<"U">>>>, <<"U+0443", <<"u">>>>, <<"U+0424", <<"F">>>>, <<"U+0444", <<"f">>>>,
    <<"U+0425", <<"H">>>>, <<"U+0445", <<"h">>>>, <<"U+0426", <<"C">>>>, <<"U+0446", <<"c">>>>,
    <<"U+0427", <<"U+010C">>>>, <<"U+0447", <<"U+010D">>>>, <<"U+040F", <<"D", "U+017E">>>>,
    <<"U+045F", <<"d", "U+017E">>>>, <<"U+0428", <<"U+0160">>>>, <<"U+0448", <<"U+0161">>>>,
    <<"U+0401", <<"J", "o">>>>, <<"U+0451", <<"j", "o">>>>, <<"U+0419", <<"J">>>>,
    <<"U+0439", <<"j">>>>, <<"U+0429", <<"U+0160", "U+010D">>>>,
    <<"U+0449", <<"U+0161", "U+010D">>>>, <<"U+042A", <<>>>>, <<"U+044A", <<>>>>,
    <<"U+042B", <<"Y">>>>, <<"U+044B", <<"y">>>>, <<"U+042C", <<"'">>>>, <<"U+044C", <<"'">>>>,
    <<"U+042D", <<"E">>>>, <<"U+044D", <<"e">>>>, <<"U+042E", <<"J", "u">>>>,
    <<"U+044E", <<"j", "u">>>>, <<"U+042F", <<"J", "a">>>>, <<"U+044F", <<"j", "a">>>>,
    <<"U+040E", <<"U+016C">>>>, <<"U+045E", <<"U+016D">>>>, <<"U+0404", <<"J", "e">>>>,
    <<"U+0454", <<"j", "e">>>>, <<"U+0406", <<"I">>>>, <<"U+0456", <<"i">>>>,
    <<"U+0407", <<"U+00CF">>>>, <<"U+0457", <<"U+00EF">>>>, <<"U+0490", <<"G">>>>,
    <<"U+0491", <<"g">>>>, <<"U+0405", <<"D", "z">>>>, <<"U+0455", <<"d", "z">>>>,
    <<"U+0403", <<"U+01F4">>>>, <<"U+0453", <<"U+01F5">>>>, <<"U+040C", <<"U+1E30">>>>,
    <<"U+045C", <<"U+1E31">>>>, <<"U+04B6", <<"D", "U+017E">>>>,
    <<"U+04B7", <<"d", "U+017E">>>>, <<"U+04B8", <<"C">>>>, <<"U+04B9", <<"c">>>>,
    <<"U+04D8", <<"U+018F">>>>, <<"U+04D9", <<"U+0259">>>>, <<"U+0492", <<"U+011E">>>>,
    <<"U+0493", <<"U+011F">>>>, <<"U+04BA", <<"H">>>>, <<"U+04BB", <<"h">>>>,
    <<"U+04E8", <<"U+00D6">>>>, <<"U+04E9", <<"U+00F6">>>>, <<"U+049C", <<"G">>>>,
    <<"U+049D", <<"g">>>>, <<"U+04AE", <<"U+00DC">>>>, <<"U+04AF", <<"U+00FC">>>>,
    <<"U+049A", <<"Q">>>>, <<"U+049B", <<"q">>>>, <<"U+04D8", <<"A", "'">>>>,
    <<"U+04D9", <<"a", "'">>>>, <<"U+04A2", <<"N", "'">>>>, <<"U+04A3", <<"n", "'">>>>,
    <<"U+04B0", <<"U">>>>, <<"U+04B1", <<"u">>>>, <<"U+0462", <<"U+011A">>>>,
    <<"U+0463", <<"U+011B">>>>, <<"U+0466", <<"U+0118">>>>, <<"U+0467", <<"U+0119">>>>,
    <<"U+0468", <<"J", "U+0119">>>>, <<"U+0469", <<"j", "U+0119">>>>,
    <<"U+046A", <<"U+0104">>>>, <<"U+046B", <<"U+0105">>>>, <<"U+046C", <<"J", "U+0105">>>>,
    <<"U+046D", <<"j", "U+0105">>>>, <<"U+0464", <<"J", "e">>>>, <<"U+0465", <<"j", "e">>>>
    >>

\* the items AZ_LATN_TABLE.update() receives
AZ_LATN_UPDATE ==
    <<
    <<"U+0427", <<"U+00C7">>>>, <<"U+0447", <<"U+00E7">>>>, <<"U+0425", <<"X">>>>,
    <<"U+0445", <<"x">>>>, <<"U+042B", <<"I">>>>, <<"U+044B", <<"U+0131">>>>,
    <<"U+0418", <<"U+0130">>>>, <<"U+0438", <<"i">>>>, <<"U+0416", <<"J">>>>,
    <<"U+0436", <<"j">>>>, <<"U+0408", <<"Y">>>>, <<"U+0458", <<"y">>>>, <<"U+0413", <<"Q">>>>,
    <<"U+0433", <<"q">>>>, <<"U+0428", <<"U+015E">>>>, <<"U+0448", <<"U+015F">>>>
    >>

\* the items KK_LATN_TABLE.update() receives
KK_LATN_UPDATE ==
    <<
    <<"U+0492", <<"G", "'">>>>, <<"U+0493", <<"g", "'">>>>, <<"U+0418", <<"I", "'">>>>,
    <<"U+0438", <<"i", "'">>>>, <<"U+0419", <<"I", "'">>>>, <<"U+0439", <<"i", "'">>>>,
    <<"U+0416", <<"J">>>>, <<"U+0436", <<"j">>>>, <<"U+04E8", <<"O", "'">>>>,
    <<"U+04E9", <<"o", "'">>>>, <<"U+0423", <<"Y", "'">>>>, <<"U+0443", <<"y", "'">>>>,
    <<"U+04AE", <<"U", "'">>>>, <<"U+04AF", <<"u", "'">>>>, <<"U+04BA", <<"H">>>>,
    <<"U+04BB", <<"h">>>>, <<"U+0427", <<"C", "'">>>>, <<"U+0447", <<"c", "'">>>>
    >>

SR_LATN_TABLE == DictOf(SR_LATN_ITEMS)

\* SR_LATN_TABLE.copy() after update(): the updating items win
AZ_LATN_TABLE == DictOf(AZ_LATN_UPDATE) @@ SR_LATN_TABLE

\* a faulty variant of KK_LATN_TABLE: the replacement of the short i is
\* written with the Cyrillic letter that looks like the Latin I
KK_LATN_TABLE_Homoglyph ==
    ("U+0419" :> <<"U+0418", "'">>) @@ DictOf(KK_LATN_UPDATE) @@ SR_LATN_TABLE

KK_LATN_TABLE == DictOf(KK_LATN_UPDATE) @@ SR_LATN_TABLE

\* what raise ValueError(message) leaves the caller with instead of a text
ValueError(message) == <<"ValueError", message>>

\* "{!r}".format(table) for a str
repr(table) == "'" \o table \o "'"

\* str.translate(table): a character that is a key becomes its replacement
translate(text, table) == Expand(table, text)

\* a faulty variant of transliterate: an unknown table leaves the text as it is
TransliterateOrKeep(table, text) ==
    IF table = "sr-Latn" THEN translate(text, SR_LATN_TABLE)
    ELSE IF table = "az-Latn" THEN translate(text, AZ_LATN_TABLE)
    ELSE IF table = "kk-Latn" THEN translate(text, KK_LATN_TABLE)
    ELSE text

\* transliterate(table, text)
transliterate(table, text) ==
    IF table = "sr-Latn" THEN translate(text, SR_LATN_TABLE)
    ELSE IF table = "az-Latn" THEN translate(text, AZ_LATN_TABLE)
    ELSE IF table = "kk-Latn" THEN translate(text, KK_LATN_TABLE)
    ELSE ValueError("Unknown transliteration table: " \o repr(table))

(* ---------------------------- normalize_text --------------------------- *)

\* MARK_RE: the Hebrew marks, the Arabic marks and the Arabic tatweel
MARK_RE(c) ==
    /\ Len(c) > 1
    /\ \/ CodePoint(c) \in HexValue("0591")..HexValue("05C7")
       \/ CodePoint(c) \in HexValue("0610")..HexValue("061A")
       \/ CodePoint(c) \in HexValue("064B")..HexValue("065F")
       \/ CodePoint(c) \in HexValue("06D6")..HexValue("06ED")
       \/ CodePoint(c) = HexValue("0640")

\* a faulty variant of remove_marks: the marks stay
KeepMarks(text) == text

\* MARK_RE.sub('', text)
remove_marks(text) == SelectSeq(text, LAMBDA c : ~MARK_RE(c))

\* a faulty variant of casefold_with_i_dots: the letters are mapped first and
\* the text is composed afterwards
MapBeforeNormalize(text) ==
    casefold(normalize("NFC", replace(replace(text, "U+0130", <<"i">>), "I", <<"U+0131">>)))

\* casefold_with_i_dots: U+0130 becomes i and I becomes U+0131 before folding
casefold_with_i_dots(text) ==
    casefold(replace(replace(normalize("NFC", text), "U+0130", <<"i">>), "I", <<"U+0131">>))

\* s and t with comma below become s and t with cedilla
commas_to_cedillas(text) ==
    replace(replace(text, "U+0219", <<"U+015F">>), "U+021B", <<"U+0163">>)

\* s and t with cedilla become s and t with comma below
cedillas_to_commas(text) ==
    replace(replace(text, "U+015F", <<"U+0219">>), "U+0163", <<"U+021B">>)

\* the body of normalize_text once the profile info is at hand
normalize_with(info, text) ==
    LET t1 == strip(replace(replace(text, "U+000A", <<" ">>), "U+0009", <<" ">>))
        t2 == normalize(info.normal_form, t1)
        t3 == IF info.transliteration # None
              THEN transliterate(info.transliteration, t2) ELSE t2
        t4 == remove_marks(t3)
        t5 == IF info.dotless_i THEN casefold_with_i_dots(t4) ELSE casefold(t4)
        t6 == IF info.diacritics_under = "commas" THEN cedillas_to_commas(t5)
              ELSE IF info.diacritics_under = "cedillas" THEN commas_to_cedillas(t5)
              ELSE t5
    IN  uncurl_quotes(t6)

(* --------------------------- get_language_info ------------------------- *)

\* the language tags the model resolves
LanguageTags == {"en", "tr", "az", "kk", "ro", "ro-MD", "sr", "ja", "ar"}

\* langcodes: Language.get(tag).maximize(), the likely subtags filled in
LikelySubtags ==
    <<
    <<"en", [language |-> "en", script |-> "Latn", territory |-> "US"]>>,
    <<"tr", [language |-> "tr", script |-> "Latn", territory |-> "TR"]>>,
    <<"az", [language |-> "az", script |-> "Latn", territory |-> "AZ"]>>,
    <<"kk", [language |-> "kk", script |-> "Cyrl", territory |-> "KZ"]>>,
    <<"ro", [language |-> "ro", script |-> "Latn", territory |-> "RO"]>>,
    <<"ro-MD", [language |-> "ro", script |-> "Latn", territory |-> "MD"]>>,
    <<"sr", [language |-> "sr", script |-> "Cyrl", territory |-> "RS"]>>,
    <<"ja", [language |-> "ja", script |-> "Jpan", territory |-> "JP"]>>,
    <<"ar", [language |-> "ar", script |-> "Arab", territory |-> "EG"]>>
    >>

maximize(tag) == DictOf(LikelySubtags)[tag]

\* langcodes: the distance of two tags, the sum of what a different language,
\* a different script and a different territory cost
tag_distance(desired, supported) ==
    LET d == maximize(desired)
        s == maximize(supported)
    IN  (IF d.language # s.language THEN 80 ELSE 0)
        + (IF d.script # s.script THEN 50 ELSE 0)
        + (IF d.territory # s.territory THEN 4 ELSE 0)

\* langcodes: closest_match(language, targets, max_distance): a target at the
\* least distance with its distance, or <<"und", 1000>> when none is within
\* max_distance
closest_match(language, targets, max_distance) ==
    LET near == {t \in targets : tag_distance(language, t) <= max_distance} IN
    IF near = {} THEN <<"und", 1000>>
    ELSE LET t == CHOOSE t \in near :
                    \A u \in near : tag_distance(language, t) <= tag_distance(language, u)
         IN  <<t, tag_distance(language, t)>>

\* the default of the max_distance parameter of _language_in_list
max_distance == 10

_language_in_list(language, targets) ==
    closest_match(language, targets, max_distance)[1] # "und"

\* a faulty variant of get_language_info: the branch of tr, az and kk sets
\* dotless_i and forgets diacritics_under
GetLanguageInfoNoCedillas(language) ==
    LET script == maximize(language).script
        tr_az_kk == _language_in_list(language, {"tr", "az", "kk"})
        ro == _language_in_list(language, {"ro"})
    IN  [script |-> script,
         tokenizer |-> "regex",
         normal_form |-> IF script \in {"Latn", "Grek", "Cyrl"} THEN "NFC" ELSE "NFKC",
         remove_marks |-> FALSE,
         dotless_i |-> tr_az_kk,
         diacritics_under |-> IF tr_az_kk THEN None
                              ELSE IF ro THEN "commas" ELSE None,
         transliteration |-> IF _language_in_list(language, {"sr"}) THEN "sr-Latn"
                             ELSE IF _language_in_list(language, {"az"}) THEN "az-Latn"
                             ELSE IF _language_in_list(language, {"kk"}) THEN "kk-Latn"
                             ELSE None,
         lookup_transliteration |-> None]

\* the body of get_language_info: what a call that misses the cache computes
get_language_info(language) ==
    LET script == maximize(language).script
        tr_az_kk == _language_in_list(language, {"tr", "az", "kk"})
        ro == _language_in_list(language, {"ro"})
    IN  [script |-> script,
         tokenizer |-> "regex",
         normal_form |-> IF script \in {"Latn", "Grek", "Cyrl"} THEN "NFC" ELSE "NFKC",
         remove_marks |-> FALSE,
         dotless_i |-> tr_az_kk,
         diacritics_under |-> IF tr_az_kk THEN "cedillas"
                              ELSE IF ro THEN "commas" ELSE None,
         transliteration |-> IF _language_in_list(language, {"sr"}) THEN "sr-Latn"
                             ELSE IF _language_in_list(language, {"az"}) THEN "az-Latn"
                             ELSE IF _language_in_list(language, {"kk"}) THEN "kk-Latn"
                             ELSE None,
         lookup_transliteration |-> None]

(* ------------------------------ write_stream --------------------------- *)

\* a DocZip was constructed; nothing was written to its path or read from it
InitArchive ==
    /\ lang \in Langs
    /\ stream = <<>>
    /\ chunk_size = 1
    /\ pulled = 0
    /\ currvalue = None
    /\ chunk_num = 0
    /\ doc_bin = <<>>
    /\ wpc = "idle"
    /\ zip = <<>>
    /\ damaged = {}
    /\ rpc = [r \in Readers |-> "idle"]
    /\ rnames = [r \in Readers |-> <<>>]
    /\ rk = [r \in Readers |-> 0]
    /\ rbin = [r \in Readers |-> <<>>]
    /\ ri = [r \in Readers |-> 0]
    /\ yielded = [r \in Readers |-> <<>>]

\* nothing is being normalized
IdleNormalize ==
    /\ ntext = <<>>
    /\ nlang = "en"
    /\ normalized = <<>>
    /\ renormalized = <<>>
    /\ ntoken = <<>>
    /\ npc = "idle"

\* the module was imported: the cache of get_language_info is empty, no call runs
IdleInfo ==
    /\ heap = <<>>
    /\ cache = [t \in LanguageTags |-> 0]
    /\ itag = [c \in Callers |-> None]
    /\ ipc = [c \in Callers |-> "idle"]
    /\ iret = [c \in Callers |-> 0]
    /\ calls = 0

\* nothing is being transliterated
IdleTransliterate ==
    /\ xtable = None
    /\ transliterated = <<>>
    /\ retransliterated = <<>>
    /\ xpc = "idle"

\* count_tokens is not running
IdleCount ==
    /\ cdocs = <<>>
    /\ counts = <<>>
    /\ total = 0
    /\ out_file = <<>>
    /\ ci = 0
    /\ cpc = "idle"

\* no pair of letters is being normalized
IdleLetters ==
    /\ letters = <<>>
    /\ merged = <<>>
    /\ lpc = "idle"

\* casefold_with_i_dots is not running
IdleFold ==
    /\ ftext = <<>>
    /\ folded = <<>>
    /\ fpc = "idle"

\* tokenize_stream is not running
IdleTokenize ==
    /\ klines = <<>>
    /\ use_ftfy = TRUE
    /\ kpc = "idle"

\* an argument that was not given: None in place of an int
NoInt == -1

\* corpus_reader was not called
IdleCorpus ==
    /\ start_at = NoInt
    /\ limit = NoInt
    /\ corpus = <<>>
    /\ qpc = "idle"

\* none of the later callers runs
IdleRest ==
    /\ IdleLetters
    /\ IdleFold
    /\ IdleTokenize
    /\ IdleCorpus

IdleTokens ==
    /\ token = <<>>
    /\ smashed = <<>>
    /\ tpc = "idle"

Init ==
    /\ InitArchive
    /\ IdleTokens
    /\ IdleNormalize
    /\ IdleInfo
    /\ IdleRest
    /\ IdleTransliterate
    /\ IdleCount

\* write_stream(stream, chunk_size) is called: ZipFile(self.path, mode="w")
\* creates or truncates the container.  No iterator is reading the path.
WriteOpen(s, c) ==
    /\ wpc \in {"idle", "done"}
    /\ \A r \in Readers : rpc[r] = "idle"
    /\ stream' = s
    /\ chunk_size' = c
    /\ pulled' = 0
    /\ currvalue' = None
    /\ chunk_num' = 0
    /\ doc_bin' = <<>>
    /\ zip' = <<>>
    /\ damaged' = {}
    /\ wpc' = "next_group"
    /\ UNCHANGED <<lang, rvars, tvars, ovars>>

\* a faulty variant of WriteNextGroup: the item read ahead by the previous group is
\* dropped and a fresh item is pulled to start the group
WriteNextGroupDropsHeld ==
    /\ wpc = "next_group"
    /\ IF pulled < Len(stream)
       THEN /\ pulled' = pulled + 1
            /\ currvalue' = <<pulled, stream[pulled + 1]>>
            /\ chunk_num' = chunker(<<pulled, stream[pulled + 1]>>, chunk_size)
            /\ doc_bin' = <<>>
            /\ wpc' = "body"
       ELSE /\ wpc' = "done"
            /\ doc_bin' = <<>>
            /\ currvalue' = None
            /\ UNCHANGED <<pulled, chunk_num>>
    /\ UNCHANGED <<lang, stream, chunk_size, zip, damaged, rvars, tvars, ovars>>

\* a faulty variant of WriteNextGroup: doc_bin is made once, before the loop, and every
\* group adds to it
WriteNextGroupKeepsBin ==
    /\ wpc = "next_group"
    /\ IF currvalue # None /\ chunker(currvalue, chunk_size) # chunk_num
       THEN /\ chunk_num' = chunker(currvalue, chunk_size)
            /\ wpc' = "body"
            /\ UNCHANGED <<pulled, currvalue, doc_bin>>
       ELSE IF pulled < Len(stream)
       THEN /\ pulled' = pulled + 1
            /\ currvalue' = <<pulled, stream[pulled + 1]>>
            /\ chunk_num' = chunker(<<pulled, stream[pulled + 1]>>, chunk_size)
            /\ wpc' = "body"
            /\ UNCHANGED doc_bin
       ELSE /\ wpc' = "done"
            /\ doc_bin' = <<>>
            /\ currvalue' = None
            /\ UNCHANGED <<pulled, chunk_num>>
    /\ UNCHANGED <<lang, stream, chunk_size, zip, damaged, rvars, tvars, ovars>>

\* groupby.__next__: pull until the held key differs from the finished group's
\* key; at the end of the input the for loop ends and the container is closed.
WriteNextGroup ==
    /\ wpc = "next_group"
    /\ IF currvalue # None /\ chunker(currvalue, chunk_size) # chunk_num
       THEN \* the item read ahead by the previous group starts this group
            /\ chunk_num' = chunker(currvalue, chunk_size)
            /\ doc_bin' = <<>>
            /\ wpc' = "body"
            /\ UNCHANGED <<pulled, currvalue>>
       ELSE IF pulled < Len(stream)
       THEN /\ pulled' = pulled + 1
            /\ currvalue' = <<pulled, stream[pulled + 1]>>
            /\ chunk_num' = chunker(<<pulled, stream[pulled + 1]>>, chunk_size)
            /\ doc_bin' = <<>>
            /\ wpc' = "body"
       ELSE /\ wpc' = "done"
            /\ doc_bin' = <<>>
            /\ currvalue' = None
            /\ UNCHANGED <<pulled, chunk_num>>
    /\ UNCHANGED <<lang, stream, chunk_size, zip, damaged, rvars, tvars, ovars>>

\* the body of the inner loop: doc = self.nlp(text); doc_bin.add(doc)
WriteAdd ==
    /\ wpc = "body"
    /\ doc_bin' = Append(doc_bin, nlp(currvalue[2]))
    /\ wpc' = "pull"
    /\ UNCHANGED <<lang, stream, chunk_size, pulled, currvalue, chunk_num,
                   zip, damaged, rvars, tvars, ovars>>

\* _grouper.__next__: pull the next item; the group goes on while its key is
\* the group's key, and ends at another key or at the end of the input.
WritePull ==
    /\ wpc = "pull"
    /\ IF pulled < Len(stream)
       THEN /\ pulled' = pulled + 1
            /\ currvalue' = <<pulled, stream[pulled + 1]>>
            /\ wpc' = IF chunker(<<pulled, stream[pulled + 1]>>, chunk_size) = chunk_num
                      THEN "body" ELSE "finalize"
       ELSE /\ wpc' = "finalize"
            /\ UNCHANGED <<pulled, currvalue>>
    /\ UNCHANGED <<lang, stream, chunk_size, chunk_num, doc_bin, zip, damaged,
                   rvars, tvars, ovars>>

\* a faulty variant of WriteFinalize: only a chunk that reached chunk_size is written
WriteFinalizeFullOnly ==
    /\ wpc = "finalize"
    /\ zip' = IF Len(doc_bin) = chunk_size
              THEN Append(zip, [name |-> ChunkName(lang, chunk_num),
                                blob |-> ToBytes(doc_bin)])
              ELSE zip
    /\ wpc' = "next_group"
    /\ UNCHANGED <<lang, stream, chunk_size, pulled, currvalue, chunk_num,
                   doc_bin, damaged, rvars, tvars, ovars>>

\* doc_bin.to_disk(temp_file); zip_file.write(temp_file, arcname=filename)
WriteFinalize ==
    /\ wpc = "finalize"
    /\ zip' = Append(zip, [name |-> ChunkName(lang, chunk_num),
                           blob |-> ToBytes(doc_bin)])
    /\ wpc' = "next_group"
    /\ UNCHANGED <<lang, stream, chunk_size, pulled, currvalue, chunk_num,
                   doc_bin, damaged, rvars, tvars, ovars>>

(* -------------------------------- reading ------------------------------ *)

\* the stored bytes of an entry stop decoding (a fault of the medium, not an
\* operation of DocZip), while no iterator is reading the container
Damage(k) ==
    /\ wpc = "done"
    /\ \A r \in Readers : rpc[r] = "idle"
    /\ k \in 1..Len(zip)
    /\ damaged = {}
    /\ damaged' = {k}
    /\ UNCHANGED <<wvars, zip, rvars, tvars, ovars>>

\* a faulty variant of ReadStart: the position in the chunk list is kept on the DocZip
\* object, so a new iterator goes on where the furthest live one stands
ReadStartShared(r) ==
    /\ wpc = "done"
    /\ rpc[r] = "idle"
    /\ rnames' = [rnames EXCEPT ![r] = Namelist(zip)]
    /\ rk' = [rk EXCEPT ![r] =
                 CHOOSE m \in {rk[q] : q \in Readers} :
                     \A q \in Readers : rk[q] <= m]
    /\ rbin' = [rbin EXCEPT ![r] = <<>>]
    /\ ri' = [ri EXCEPT ![r] = 0]
    /\ yielded' = [yielded EXCEPT ![r] = <<>>]
    /\ rpc' = [rpc EXCEPT ![r] = "next_chunk"]
    /\ UNCHANGED <<wvars, zip, damaged, tvars, ovars>>

\* a faulty variant of ReadStart: get_chunks opens the container with mode="w"
ReadStartTruncates(r) ==
    /\ wpc = "done"
    /\ rpc[r] = "idle"
    /\ zip' = <<>>
    /\ rnames' = [rnames EXCEPT ![r] = <<>>]
    /\ rk' = [rk EXCEPT ![r] = 0]
    /\ rbin' = [rbin EXCEPT ![r] = <<>>]
    /\ ri' = [ri EXCEPT ![r] = 0]
    /\ yielded' = [yielded EXCEPT ![r] = <<>>]
    /\ rpc' = [rpc EXCEPT ![r] = "next_chunk"]
    /\ UNCHANGED <<wvars, damaged, tvars, ovars>>

\* iterate() is called and advanced for the first time: self.get_chunks()
ReadStart(r) ==
    /\ wpc = "done"
    /\ rpc[r] = "idle"
    /\ rnames' = [rnames EXCEPT ![r] = Namelist(zip)]
    /\ rk' = [rk EXCEPT ![r] = 0]
    /\ rbin' = [rbin EXCEPT ![r] = <<>>]
    /\ ri' = [ri EXCEPT ![r] = 0]
    /\ yielded' = [yielded EXCEPT ![r] = <<>>]
    /\ rpc' = [rpc EXCEPT ![r] = "next_chunk"]
    /\ UNCHANGED <<wvars, zip, damaged, tvars, ovars>>

\* a faulty variant of ReadChunk: an entry that does not decode is skipped
ReadChunkSkipsDamaged(r) ==
    /\ rpc[r] = "next_chunk"
    /\ IF rk[r] = Len(rnames[r])
       THEN /\ rpc' = [rpc EXCEPT ![r] = "done"]
            /\ rbin' = [rbin EXCEPT ![r] = <<>>]
            /\ UNCHANGED <<rk, ri>>
       ELSE LET i == EntryIndex(zip, rnames[r][rk[r] + 1]) IN
            /\ rbin' = [rbin EXCEPT ![r] =
                           IF i \in damaged THEN <<>> ELSE GetDocs(zip[i].blob)]
            /\ ri' = [ri EXCEPT ![r] = 0]
            /\ rk' = [rk EXCEPT ![r] = rk[r] + 1]
            /\ rpc' = [rpc EXCEPT ![r] = "yield"]
    /\ UNCHANGED <<wvars, zip, damaged, rnames, yielded, tvars, ovars>>

\* the for loop of iterate() takes the next name and iterate_chunk reads and
\* decodes that entry; from_bytes raises on bytes that do not decode
ReadChunk(r) ==
    /\ rpc[r] = "next_chunk"
    /\ IF rk[r] = Len(rnames[r])
       THEN /\ rpc' = [rpc EXCEPT ![r] = "done"]
            /\ rbin' = [rbin EXCEPT ![r] = <<>>]
            /\ UNCHANGED <<rk, ri>>
       ELSE LET i == EntryIndex(zip, rnames[r][rk[r] + 1]) IN
            IF i \in damaged
            THEN /\ rpc' = [rpc EXCEPT ![r] = "failed"]
                 /\ rbin' = [rbin EXCEPT ![r] = <<>>]
                 /\ UNCHANGED <<rk, ri>>
            ELSE /\ rbin' = [rbin EXCEPT ![r] = GetDocs(zip[i].blob)]
                 /\ ri' = [ri EXCEPT ![r] = 0]
                 /\ rk' = [rk EXCEPT ![r] = rk[r] + 1]
                 /\ rpc' = [rpc EXCEPT ![r] = "yield"]
    /\ UNCHANGED <<wvars, zip, damaged, rnames, yielded, tvars, ovars>>

\* yield from doc_bin.get_docs(self.nlp.vocab): one Doc, or the end of the chunk
ReadYield(r) ==
    /\ rpc[r] = "yield"
    /\ IF ri[r] < Len(rbin[r])
       THEN /\ yielded' = [yielded EXCEPT ![r] = Append(yielded[r], rbin[r][ri[r] + 1])]
            /\ ri' = [ri EXCEPT ![r] = ri[r] + 1]
            /\ UNCHANGED rpc
       ELSE /\ rpc' = [rpc EXCEPT ![r] = "next_chunk"]
            /\ UNCHANGED <<yielded, ri>>
    /\ UNCHANGED <<wvars, zip, damaged, rnames, rk, rbin, tvars, ovars>>

\* the caller drops the iterator: finished, failed or abandoned midway
ReadClose(r) ==
    /\ rpc[r] # "idle"
    /\ rpc' = [rpc EXCEPT ![r] = "idle"]
    /\ rnames' = [rnames EXCEPT ![r] = <<>>]
    /\ rk' = [rk EXCEPT ![r] = 0]
    /\ rbin' = [rbin EXCEPT ![r] = <<>>]
    /\ ri' = [ri EXCEPT ![r] = 0]
    /\ yielded' = [yielded EXCEPT ![r] = <<>>]
    /\ UNCHANGED <<wvars, zip, damaged, tvars, ovars>>

\* the container a completed write_stream(s, c) leaves: chunk k holds the
\* Docs of the texts k*c+1 .. (k+1)*c, the last chunk those that remain
Written(l, s, c) ==
    [k \in 1..((Len(s) + c - 1) \div c) |->
        [name |-> ChunkName(l, k - 1),
         blob |-> ToBytes(AllDocs(SubSeq(s, (k - 1) * c + 1, Min(k * c, Len(s)))))]]

\* write_stream(s, c) has just returned
AfterWrite(s, c) ==
    /\ stream = s
    /\ chunk_size = c
    /\ pulled = Len(s)
    /\ currvalue = None
    /\ chunk_num = (IF Len(s) = 0 THEN 0 ELSE (Len(s) - 1) \div c)
    /\ doc_bin = <<>>
    /\ wpc = "done"
    /\ zip = Written(lang, s, c)

(* ------------------------------ tokens --------------------------------- *)

\* smash_numbers(token) runs and returns
Smash ==
    /\ tpc = "call"
    /\ smashed' = smash_numbers(token)
    /\ tpc' = "done"
    /\ UNCHANGED <<wvars, zip, damaged, rvars, token, ovars>>

(* ---------------------------- specifications --------------------------- *)

TokenAlphabet == {"1", "2", "U+0663", ".", ",", "a"}

\* every token of at most MaxLen characters
Tokens == UNION {[1..n -> TokenAlphabet] : n \in 0..MaxLen}

\* smash_numbers is about to be called on some token
InitTokens ==
    /\ InitArchive
    /\ token \in Tokens
    /\ smashed = <<>>
    /\ tpc = "call"
    /\ IdleNormalize
    /\ IdleInfo
    /\ IdleRest
    /\ IdleTransliterate
    /\ IdleCount

NextTokens == Smash

SpecTokens == InitTokens /\ [][NextTokens]_vars

\* the streams of at most MaxDocs texts, the texts of a stream all different,
\* so that a lost, repeated or misplaced document shows
Streams == {[i \in 1..n |-> i] : n \in 0..MaxDocs}

\* a stream of distinct texts that fills 10^PadWidth + MaxExtra chunks of c
\* documents, the last of them with a single document when c > 1
LargeStream(c) == [i \in 1..((Pow10(PadWidth) + MaxExtra - 1) * c + 1) |-> i]

Next ==
    \/ \E s \in Streams, c \in Caps : WriteOpen(s, c)
    \/ WriteNextGroup
    \/ WriteAdd
    \/ WritePull
    \/ WriteFinalize
    \/ \E k \in 1..MaxDocs : Damage(k)
    \/ \E r \in Readers : ReadStart(r)
    \/ \E r \in Readers : ReadChunk(r)
    \/ \E r \in Readers : ReadYield(r)
    \/ \E r \in Readers : ReadClose(r)

Spec == Init /\ [][Next]_vars

\* a DocZip whose write_stream call on a large stream has just returned
\* (WriteStreamReturns: the steps of write_stream end in this very state)
InitLarge ==
    /\ lang \in Langs
    /\ \E c \in Caps : AfterWrite(LargeStream(c), c)
    /\ damaged = {}
    /\ rpc = [r \in Readers |-> "idle"]
    /\ rnames = [r \in Readers |-> <<>>]
    /\ rk = [r \in Readers |-> 0]
    /\ rbin = [r \in Readers |-> <<>>]
    /\ ri = [r \in Readers |-> 0]
    /\ yielded = [r \in Readers |-> <<>>]
    /\ IdleTokens
    /\ IdleNormalize
    /\ IdleInfo
    /\ IdleRest
    /\ IdleTransliterate
    /\ IdleCount

\* one writer and one iterator on an archive of more than 10^PadWidth chunks
NextLarge ==
    \/ \E c \in Caps : WriteOpen(LargeStream(c), c)
    \/ WriteNextGroup
    \/ WriteAdd
    \/ WritePull
    \/ WriteFinalize
    \/ ReadStart(1)
    \/ ReadChunk(1)
    \/ ReadYield(1)
    \/ ReadClose(1)

SpecLarge == InitLarge /\ [][NextLarge]_vars

(* ------------------------- properties: the archive --------------------- *)

IsPrefix(a, b) == Len(a) <= Len(b) /\ \A i \in 1..Len(a) : a[i] = b[i]

\* the texts of the input that fall into chunk k (k = 0, 1, ...)
ChunkTexts(k) ==
    SubSeq(stream, k * chunk_size + 1, Min((k + 1) * chunk_size, Len(stream)))

\* the names of the entries, in the order the entries were appended
WrittenNames == [i \in 1..Len(zip) |-> zip[i].name]

\* write_stream, run step by step, returns in the state AfterWrite describes
WriteStreamReturns == wpc = "done" => AfterWrite(stream, chunk_size)

\* C1: an iterator that ran to its end over the archive write_stream made of
\* N texts has yielded exactly N Docs, the Doc of the i-th text at place i.
RoundTrip ==
    \A r \in Readers :
        rpc[r] = "done" =>
            /\ Len(yielded[r]) = Len(stream)
            /\ \A i \in 1..Len(stream) : yielded[r][i] = nlp(stream[i])

\* C1 witness: a finished iteration over N = C + 1 documents, C > 1, whose
\* first two texts differ
RoundTripWitness ==
    \E r \in Readers :
        /\ rpc[r] = "done"
        /\ chunk_size > 1
        /\ Len(stream) = chunk_size + 1
        /\ stream[1] # stream[2]

\* C2: when write_stream has returned the archive holds ceil(N/C) chunks,
\* each but the last of exactly C documents, the last of 1..C documents.
ChunkSizes ==
    wpc = "done" =>
        /\ Len(zip) = (Len(stream) + chunk_size - 1) \div chunk_size
        /\ \A i \in 1..Len(zip) :
               /\ i < Len(zip) => Len(zip[i].blob.orths) = chunk_size
               /\ i = Len(zip) =>
                      /\ Len(zip[i].blob.orths) = Len(stream) - (i - 1) * chunk_size
                      /\ Len(zip[i].blob.orths) \in 1..chunk_size

\* C2 witness: a finished write of several chunks whose last chunk is partial
ChunkSizesWitness ==
    /\ wpc = "done"
    /\ Len(zip) >= 2
    /\ Len(stream) % chunk_size # 0

\* C3: the list get_chunks returned names the entries in the order they were
\* written, and the k-th chunk an iterator decodes is the k-th chunk written.
ListingIsWriteOrder ==
    \A r \in Readers :
        rpc[r] # "idle" =>
            /\ rnames[r] = WrittenNames
            /\ rk[r] >= 1 => rnames[r][rk[r]] = ChunkName(lang, rk[r] - 1)
            /\ rpc[r] = "yield" => rbin[r] = AllDocs(ChunkTexts(rk[r] - 1))

\* C3 witness: of more than 10^PadWidth chunks listed, the iterator is
\* yielding the chunk written 102nd (for PadWidth = 3), the place where a
\* listing sorted as strings has the chunk of index 10^PadWidth
ListingWitness ==
    /\ rpc[1] = "yield"
    /\ rk[1] = Pow10(PadWidth - 1) + 2
    /\ Len(rnames[1]) > Pow10(PadWidth)

\* C4: when write_stream has returned, sorting the chunk names as strings
\* gives the order in which the chunks were written.
LexOrderIsWriteOrder ==
    wpc = "done" => SortSeq(WrittenNames, LexLess) = WrittenNames

\* C5: the writer's doc_bin holds at most chunk_size Docs, all of the chunk
\* being built; the doc_bin of an iterator holds at most chunk_size Docs, all
\* of the chunk being yielded.
MemoryBound ==
    /\ Len(doc_bin) <= chunk_size
    /\ wpc \in {"next_group", "body", "pull", "finalize"} =>
           doc_bin = AllDocs(SubSeq(stream, chunk_num * chunk_size + 1,
                                    chunk_num * chunk_size + Len(doc_bin)))
    /\ \A r \in Readers :
           /\ Len(rbin[r]) <= chunk_size
           /\ rpc[r] = "yield" => rbin[r] = AllDocs(ChunkTexts(rk[r] - 1))

\* C5 witness: an iterator holds a full chunk of several documents that is
\* not the first chunk of the archive
MemoryBoundWitness ==
    \E r \in Readers :
        /\ rpc[r] = "yield"
        /\ rk[r] >= 2
        /\ chunk_size >= 2
        /\ Len(rbin[r]) = chunk_size

\* C6: every live iterator over an undamaged archive, whatever the other
\* iterators did or do, has yielded a prefix of the full document sequence,
\* as long as its own position says, and all of it once it is done.
Restartable ==
    \A r \in Readers :
        (rpc[r] # "idle" /\ damaged = {}) =>
            /\ IsPrefix(yielded[r], AllDocs(stream))
            /\ Len(yielded[r]) =
                   IF rpc[r] = "yield"
                   THEN (rk[r] - 1) * chunk_size + ri[r]
                   ELSE Min(rk[r] * chunk_size, Len(stream))
            /\ rpc[r] = "done" => Len(yielded[r]) = Len(stream)

\* C6 witness: two iterators consumed in interleaved fashion, the second
\* started while the first stood in a later chunk
RestartableWitness ==
    \E r, q \in Readers :
        /\ rpc[r] = "yield" /\ rk[r] >= 2
        /\ rpc[q] = "yield" /\ rk[q] = 1 /\ Len(yielded[q]) = 1

\* C7 (as claimed): once write_stream has returned, no step changes or
\* removes an entry of the archive.
WriteOnce ==
    [][wpc = "done" =>
          /\ Len(zip') >= Len(zip)
          /\ \A i \in 1..Len(zip) : zip'[i] = zip[i]]_vars

\* C7 (amended): once write_stream has returned, get_chunks, iterate_chunk
\* and iterate leave the archive as it is; the only step that changes it is
\* another write_stream on the path, which empties the container first.
ReadsKeepArchive ==
    [][wpc = "done" => IF wpc' = "done" THEN zip' = zip ELSE zip' = <<>>]_vars

\* C7 witness: an iterator has run to its end over an archive of several chunks
ReadsKeepArchiveWitness ==
    /\ wpc = "done"
    /\ Len(zip) >= 2
    /\ \E r \in Readers : rpc[r] = "done" /\ Len(yielded[r]) >= 2

\* C8: an iterator that raised stands at an entry that does not decode and
\* has yielded exactly the documents of the chunks before it; no iterator
\* yields a document of a damaged chunk or of a later one, or runs to its end.
DecodeFailure ==
    \A r \in Readers :
        /\ rpc[r] = "failed" =>
               /\ (rk[r] + 1) \in damaged
               /\ yielded[r] = AllDocs(SubSeq(stream, 1, rk[r] * chunk_size))
        /\ rpc[r] # "idle" =>
               \A d \in damaged :
                   /\ Len(yielded[r]) <= (d - 1) * chunk_size
                   /\ rpc[r] # "done"

\* C8 witness: an iterator raised at a damaged chunk that has chunks before
\* it and after it
DecodeFailureWitness ==
    \E r \in Readers :
        /\ rpc[r] = "failed"
        /\ rk[r] >= 1
        /\ Len(zip) >= rk[r] + 2
        /\ Len(yielded[r]) >= 1

(* ------------------------ properties: smash_numbers -------------------- *)

NumPrefix == <<"N", "U", "M", ":">>

\* the token has a digit directly followed by a digit, a period or a comma
HasMatch(t) == \E i \in 1..(Len(t) - 1) : IsDigit(t[i]) /\ t[i + 1] \in RunChars

\* position i holds a digit that lies inside a matched run: it is followed by
\* a run character, or an earlier digit reaches it through run characters
InRun(t, i) ==
    /\ IsDigit(t[i])
    /\ \/ i < Len(t) /\ t[i + 1] \in RunChars
       \/ \E j \in 1..(i - 1) :
              IsDigit(t[j]) /\ \A k \in j..i : t[k] \in RunChars

Shape(t) == [i \in 1..Len(t) |-> IF InRun(t, i) THEN "#" ELSE t[i]]

OnlyMultiDigitRuns ==
    (/\ tpc = "done"
     /\ \A i, j \in 1..Len(token) :
            (i < j /\ IsDigit(token[i]) /\ IsDigit(token[j])) =>
                \E k \in i..j : token[k] \notin RunChars)
    => smashed = token

(* ------------------------------ normalizing ---------------------------- *)

\* what get_language_info(tag) returns to a caller no other caller interrupts:
\* the cached dict, or the dict it computes now
CurrentInfo(tag) == IF cache[tag] # 0 THEN heap[cache[tag]] ELSE get_language_info(tag)

\* what that call leaves in the cache
Remember(tag) ==
    IF cache[tag] # 0 THEN UNCHANGED <<heap, cache>>
    ELSE /\ heap' = Append(heap, get_language_info(tag))
         /\ cache' = [cache EXCEPT ![tag] = Len(heap) + 1]

\* normalize_text(ntext, nlang) runs and returns
NormalizeText ==
    /\ npc = "call"
    /\ normalized' = normalize_with(CurrentInfo(nlang), ntext)
    /\ Remember(nlang)
    /\ npc' = "normalized"
    /\ UNCHANGED <<wvars, zip, damaged, rvars, tvars, pvars, ntext, nlang, renormalized, ntoken,
                   itag, ipc, iret, calls, xvars, cvars>>

\* normalize_text runs on its own result
NormalizeAgain ==
    /\ npc = "normalized"
    /\ renormalized' = normalize_with(CurrentInfo(nlang), normalized)
    /\ Remember(nlang)
    /\ npc' = "again"
    /\ UNCHANGED <<wvars, zip, damaged, rvars, tvars, pvars, ntext, nlang, normalized, ntoken,
                   itag, ipc, iret, calls, xvars, cvars>>

\* normalize_token(ntext, nlang) runs and returns
NormalizeToken ==
    /\ npc = "again"
    /\ ntoken' = smash_numbers(normalize_with(CurrentInfo(nlang), ntext))
    /\ Remember(nlang)
    /\ npc' = "done"
    /\ UNCHANGED <<wvars, zip, damaged, rvars, tvars, pvars, ntext, nlang, normalized, renormalized,
                   itag, ipc, iret, calls, xvars, cvars>>

\* the characters the drawn texts are made of: I, capital I with dot, capital
\* S with cedilla, capital S with comma below, Cyrillic es, the combining caron,
\* the tatweel, a Hebrew point, a curly quote, a digit, a comma, a space and
\* the spacing diaeresis
TextAlphabet ==
    {"I", "U+0130", "U+015E", "U+0218", "U+0441", "U+030C", "U+0640", "U+05B4", "U+2019",
     "1", ",", " ", "U+00A8"}

\* longer texts: the marker itself in ASCII and in fullwidth letters before a
\* number, and examples of the docstring of normalize_text
LongTexts ==
    {<<"N", "U", "M", ":", "1", "2">>,
     <<"U+FF2E", "U+FF35", "U+FF2D", "U+FF1A", "1", "2">>,
     <<"W", "o", "r", "d">>,
     <<"U+0441", "U+0445", "U+0432", "U+0430", "U+0442", "U+0430", "U+0448">>,
     <<"U+0431", "U+0430", "U+0493", "U+044B", "U+0440", "U+0442", "U+044B">>}

\* the texts handed to normalize_text
Texts == UNION {[1..n -> TextAlphabet] : n \in 0..MaxText} \cup LongTexts

\* normalize_text is about to be called on some text in some language
InitNormalize ==
    /\ InitArchive
    /\ IdleTokens
    /\ IdleInfo
    /\ IdleRest
    /\ IdleTransliterate
    /\ IdleCount
    /\ ntext \in Texts
    /\ nlang \in LanguageTags
    /\ normalized = <<>>
    /\ renormalized = <<>>
    /\ ntoken = <<>>
    /\ npc = "call"

NextNormalize ==
    \/ NormalizeText
    \/ NormalizeAgain
    \/ NormalizeToken

SpecNormalize == InitNormalize /\ [][NextNormalize]_vars

(* ------------------------ properties: normalize_text ------------------- *)

\* C11: the text normalize_text returns never begins with NUM:, so the token
\* normalize_token returns begins with NUM: exactly when the normalized text
\* holds a digit that a digit, a point or a comma follows, which is when
\* smash_numbers replaces a digit
NumMarkerUnambiguous ==
    /\ npc \in {"normalized", "again", "done"} => ~IsPrefix(NumPrefix, normalized)
    /\ npc = "done" => (IsPrefix(NumPrefix, ntoken) <=> HasMatch(normalized))

\* a text that begins with NUM: was normalized and its number smashed
NumMarkerWitness ==
    /\ npc = "done"
    /\ IsPrefix(NumPrefix, ntext)
    /\ IsPrefix(NumPrefix, ntoken)
    /\ ~IsPrefix(NumPrefix \o NumPrefix, ntoken)

\* C12: normalize_text is idempotent: applied to its own result, in the same
\* language, it returns that result
Idempotent == npc \in {"again", "done"} => renormalized = normalized

\* the Hebrew and Arabic marks among the characters of the model
HebrewArabicMarks == {"U+05B4", "U+064B", "U+0653"}

Tatweel == "U+0640"

\* the curly quotes among the characters of the model
CurlyQuotes == {"U+2018", "U+2019", "U+201C", "U+201D"}

\* lowercase s and t with cedilla, and with comma below
CedillaLetters == {"U+015F", "U+0163"}

CommaLetters == {"U+0219", "U+021B"}

Chars(t) == {t[i] : i \in DOMAIN t}

InNormalForm ==
    npc # "call" =>
        normalize(get_language_info(nlang).normal_form, normalized) = normalized

(* ---------------------------- transliterating -------------------------- *)

\* the call ended in raise ValueError
Raised(result) == Len(result) = 2 /\ result[1] = "ValueError"

\* transliterate(xtable, ntext) runs and returns or raises
Transliterate ==
    /\ xpc = "call"
    /\ transliterated' = transliterate(xtable, ntext)
    /\ xpc' = IF Raised(transliterated') THEN "raised" ELSE "returned"
    /\ UNCHANGED <<wvars, zip, damaged, rvars, tvars, pvars, nvars, ivars, xtable,
                   retransliterated, cvars>>

\* transliterate runs on its own result with the same table
TransliterateAgain ==
    /\ xpc = "returned"
    /\ retransliterated' = transliterate(xtable, transliterated)
    /\ xpc' = "again"
    /\ UNCHANGED <<wvars, zip, damaged, rvars, tvars, pvars, nvars, ivars, xtable,
                   transliterated, cvars>>

\* the three table identifiers and others: names of a language, of a table in
\* the wrong case, of a table that does not exist, and the empty string
TableIds == {"sr-Latn", "az-Latn", "kk-Latn", "sr", "sr-latn", "tr-Latn", ""}

\* Cyrillic es, zhe, hard sign, nje, schwa and i, Latin s, s with caron, and
\* the apostrophe
TransliterateAlphabet ==
    {"U+0441", "U+0436", "U+044A", "U+045A", "U+04D9", "U+0438", "s", "U+0161", "'"}

\* the texts handed to transliterate: the short ones over the alphabet, and
\* every key of the tables as a text of one character
TransliterateTexts ==
    UNION {[1..n -> TransliterateAlphabet] : n \in 0..MaxText}
    \cup {<<k>> : k \in DOMAIN SR_LATN_TABLE}

\* transliterate is about to be called
InitTransliterate ==
    /\ InitArchive
    /\ IdleTokens
    /\ IdleInfo
    /\ IdleRest
    /\ IdleCount
    /\ ntext \in TransliterateTexts
    /\ nlang = "en"
    /\ normalized = <<>>
    /\ renormalized = <<>>
    /\ ntoken = <<>>
    /\ npc = "idle"
    /\ xtable \in TableIds
    /\ transliterated = <<>>
    /\ retransliterated = <<>>
    /\ xpc = "call"

NextTransliterate ==
    \/ Transliterate
    \/ TransliterateAgain

SpecTransliterate == InitTransliterate /\ [][NextTransliterate]_vars

(* ------------------------ properties: transliterate -------------------- *)

KnownTables == {"sr-Latn", "az-Latn", "kk-Latn"}

\* C15: with one of the three table identifiers transliterate returns a text;
\* with any other it raises a ValueError whose message names the identifier,
\* whatever the text, the empty one included
UnknownTableRaises ==
    xpc # "call" =>
        IF xtable \in KnownTables
        THEN xpc \in {"returned", "again"} /\ ~Raised(transliterated)
        ELSE /\ xpc = "raised"
             /\ transliterated[1] = "ValueError"
             /\ transliterated[2] = "Unknown transliteration table: '" \o xtable \o "'"

\* the empty text was handed over under the name of a language and the call raised
UnknownTableWitness ==
    /\ xpc = "raised"
    /\ xtable = "sr"
    /\ ntext = <<>>

\* the table a known identifier selects
TableOf(id) ==
    IF id = "sr-Latn" THEN SR_LATN_TABLE
    ELSE IF id = "az-Latn" THEN AZ_LATN_TABLE ELSE KK_LATN_TABLE

\* C16: a text without a key of the table comes back unchanged, no replacement
\* of a table holds a key of that table, and transliterating the result again
\* changes nothing
TransliterateIdempotent ==
    /\ \A id \in KnownTables : \A k \in DOMAIN TableOf(id) :
            Chars(TableOf(id)[k]) \cap DOMAIN TableOf(id) = {}
    /\ xpc \in {"returned", "again"} /\ Chars(ntext) \cap DOMAIN TableOf(xtable) = {}
            => transliterated = ntext
    /\ xpc = "again" => retransliterated = transliterated

\* the Cyrillic short i went through the Kazakh table twice
TransliterateIdempotentWitness ==
    /\ xpc = "again"
    /\ xtable = "kk-Latn"
    /\ ntext = <<"U+0419">>
    /\ transliterated = <<"I", "'">>
    /\ retransliterated = <<"I", "'">>

(* ------------------------ calling get_language_info -------------------- *)

\* caller c calls get_language_info(tag)
InfoCall(c, tag) ==
    /\ ipc[c] \in {"idle", "returned"}
    /\ calls < MaxCalls
    /\ calls' = calls + 1
    /\ itag' = [itag EXCEPT ![c] = tag]
    /\ ipc' = [ipc EXCEPT ![c] = "called"]
    /\ UNCHANGED <<wvars, zip, damaged, rvars, tvars, pvars, nvars, heap, cache, iret, xvars, cvars>>

\* a faulty variant of InfoLookup: a hit is any entry of the cache, whatever its key
InfoLookupAnyKey(c) ==
    /\ ipc[c] = "called"
    /\ \/ /\ \E t \in LanguageTags : cache[t] # 0 /\ iret' = [iret EXCEPT ![c] = cache[t]]
          /\ ipc' = [ipc EXCEPT ![c] = "returned"]
       \/ /\ cache[itag[c]] = 0
          /\ ipc' = [ipc EXCEPT ![c] = "computing"]
          /\ UNCHANGED iret
    /\ UNCHANGED <<wvars, zip, damaged, rvars, tvars, pvars, nvars, heap, cache, itag, calls,
                   xvars, cvars>>

\* the wrapper of lru_cache looks the key up: a hit returns the cached dict
\* itself, a miss goes on to call the function
InfoLookup(c) ==
    /\ ipc[c] = "called"
    /\ \/ /\ cache[itag[c]] # 0
          /\ iret' = [iret EXCEPT ![c] = cache[itag[c]]]
          /\ ipc' = [ipc EXCEPT ![c] = "returned"]
       \/ /\ cache[itag[c]] = 0
          /\ ipc' = [ipc EXCEPT ![c] = "computing"]
          /\ UNCHANGED iret
    /\ UNCHANGED <<wvars, zip, damaged, rvars, tvars, pvars, nvars, heap, cache, itag, calls,
                   xvars, cvars>>

\* the function returns a new dict to the wrapper, which stores it under the
\* key, over what another caller stored meanwhile, and returns it
InfoReturn(c) ==
    /\ ipc[c] = "computing"
    /\ heap' = Append(heap, get_language_info(itag[c]))
    /\ cache' = [cache EXCEPT ![itag[c]] = Len(heap) + 1]
    /\ iret' = [iret EXCEPT ![c] = Len(heap) + 1]
    /\ ipc' = [ipc EXCEPT ![c] = "returned"]
    /\ UNCHANGED <<wvars, zip, damaged, rvars, tvars, pvars, nvars, itag, calls, xvars, cvars>>

\* a caller assigns to the dotless_i item of the dict its call returned
Modify(c) ==
    /\ ipc[c] = "returned"
    /\ heap' = [heap EXCEPT ![iret[c]].dotless_i = ~@]
    /\ UNCHANGED <<wvars, zip, damaged, rvars, tvars, pvars, nvars, cache, itag, ipc, iret, calls,
                   xvars, cvars>>

NextInfo ==
    \/ \E c \in Callers, tag \in LanguageTags : InfoCall(c, tag)
    \/ \E c \in Callers : InfoLookup(c)
    \/ \E c \in Callers : InfoReturn(c)

\* callers that only read what get_language_info returns, as the callers in
\* this package do
SpecInfo == Init /\ [][NextInfo]_vars

\* callers of which one also writes to the dict it was handed, while
\* normalize_text is called on the letter I
InitCaller ==
    /\ InitArchive
    /\ IdleTokens
    /\ IdleInfo
    /\ IdleRest
    /\ IdleTransliterate
    /\ IdleCount
    /\ ntext = <<"I">>
    /\ nlang \in {"en", "tr"}
    /\ normalized = <<>>
    /\ renormalized = <<>>
    /\ ntoken = <<>>
    /\ npc = "call"

NextCaller ==
    \/ \E c \in Callers, tag \in {"en", "tr", "ro"} : InfoCall(c, tag)
    \/ \E c \in Callers : InfoLookup(c)
    \/ \E c \in Callers : InfoReturn(c)
    \/ \E c \in Callers : Modify(c)
    \/ NormalizeText

SpecCaller == InitCaller /\ [][NextCaller]_vars

(* ---------------------- properties: get_language_info ------------------ *)

ProfilesImmutable ==
    [][/\ \A c \in Callers :
            ipc[c] # "returned" /\ ipc'[c] = "returned"
                => heap'[iret'[c]] = get_language_info(itag'[c])
       /\ npc = "call" /\ npc' = "normalized"
                => normalized' = normalize_with(get_language_info(nlang), ntext)]_vars

\* the tags within max_distance of one of the targets
Near(targets) ==
    {t \in LanguageTags : \E g \in targets : tag_distance(t, g) <= max_distance}

\* C19: in a returned profile dotless_i is true exactly for the tags near tr, az
\* or kk, and diacritics_under is then cedillas; it is commas exactly for the
\* tags near ro and not near tr, az or kk; for every other tag dotless_i is
\* false and diacritics_under is None; dotless_i never comes with commas
ProfileRules ==
    \A c \in Callers :
        ipc[c] = "returned" =>
            LET p == heap[iret[c]]
                t == itag[c]
                turkic == t \in Near({"tr", "az", "kk"})
                romanian == t \in Near({"ro"})
            IN  /\ p.dotless_i <=> turkic
                /\ turkic => p.diacritics_under = "cedillas"
                /\ p.diacritics_under = "commas" <=> (romanian /\ ~turkic)
                /\ ~turkic /\ ~romanian => ~p.dotless_i /\ p.diacritics_under = None
                /\ ~(p.dotless_i /\ p.diacritics_under = "commas")

\* profiles were returned for Kazakh and for the Romanian of Moldova, a
\* regional variant within the threshold
ProfileRulesWitness ==
    /\ ipc[1] = "returned" /\ itag[1] = "kk"
    /\ heap[iret[1]].dotless_i /\ heap[iret[1]].diacritics_under = "cedillas"
    /\ ipc[2] = "returned" /\ itag[2] = "ro-MD"
    /\ heap[iret[2]].diacritics_under = "commas"

(* ------------------------------ count_tokens --------------------------- *)

\* A Counter is the sequence of its items <<key, count>> in insertion order.

\* the position of key k in the Counter, 0 when it has none
Position(cn, k) ==
    IF \E i \in DOMAIN cn : cn[i][1] = k THEN CHOOSE i \in DOMAIN cn : cn[i][1] = k ELSE 0

\* Counter.update(toks)
RECURSIVE update(_, _)
update(cn, toks) ==
    IF toks = <<>> THEN cn
    ELSE LET i == Position(cn, Head(toks)) IN
         update(IF i = 0 THEN Append(cn, <<Head(toks), 1>>)
                ELSE [cn EXCEPT ![i] = <<cn[i][1], cn[i][2] + 1>>],
                Tail(toks))

\* Counter(counts.keys())
one_each(cn) == [i \in DOMAIN cn |-> <<cn[i][1], 1>>]

\* a - b for a Counter b with the keys of a: the items of a decreased, those
\* no longer positive dropped
Subtract(a, b) ==
    LET diff == [i \in DOMAIN a |-> <<a[i][1], a[i][2] - b[Position(b, a[i][1])][2]>>] IN
    SelectSeq(diff, LAMBDA item : item[2] > 0)

\* a faulty variant of most_common: the items come in insertion order
InsertionOrder(cn) == cn

\* Counter.most_common(): the items sorted by count, largest first, items of
\* equal count in insertion order
RECURSIVE most_common(_)
most_common(cn) ==
    IF cn = <<>> THEN <<>>
    ELSE LET i == CHOOSE i \in DOMAIN cn :
                    /\ \A j \in DOMAIN cn : cn[j][2] <= cn[i][2]
                    /\ \A j \in 1..(i - 1) : cn[j][2] < cn[i][2]
         IN  <<cn[i]>> \o most_common(SubSeq(cn, 1, i - 1) \o SubSeq(cn, i + 1, Len(cn)))

\* normalize_token with the profile at hand
normalize_token(info, tok) == smash_numbers(normalize_with(info, tok))

\* the loop body of count_tokens for the next Doc of the archive
CountDoc ==
    /\ cpc = "counting"
    /\ ci < Len(cdocs)
    /\ LET doc == cdocs[ci + 1]
           all == [i \in DOMAIN doc |-> normalize_token(CurrentInfo(nlang), doc[i])]
           toks == SelectSeq(all, LAMBDA tok : tok # <<>>)
       IN  /\ counts' = update(counts, toks)
           /\ total' = total + Len(toks)
    /\ Remember(nlang)
    /\ ci' = ci + 1
    /\ UNCHANGED <<wvars, zip, damaged, rvars, tvars, pvars, nvars, itag, ipc, iret, calls, xvars,
                   cdocs, out_file, cpc>>

\* the archive is exhausted: the tokens counted more than once are written
\* after the line of the total
CountWrite ==
    /\ cpc = "counting"
    /\ ci = Len(cdocs)
    /\ LET adjusted_counts == Subtract(counts, one_each(counts))
           common == most_common(adjusted_counts)
       IN  out_file' = <<<<"__total__", total>>>>
                       \o [i \in DOMAIN common |-> <<common[i][1], common[i][2] + 1>>]
    /\ cpc' = "done"
    /\ UNCHANGED <<wvars, zip, damaged, rvars, tvars, pvars, nvars, ivars, xvars,
                   cdocs, counts, total, ci>>

\* the texts of the tokens in the archive: A, a, b and a lone tatweel
RawTokens == {<<"A">>, <<"a">>, <<"b">>, <<"U+0640">>}

\* the tokens of an archive, Doc after Doc
TokenStreams == UNION {[1..n -> RawTokens] : n \in 0..MaxTokens}

\* the Docs of an archive whose Docs hold DocSize tokens each, the last one
\* what is left
DocsOf(flat) ==
    [d \in 1..((Len(flat) + DocSize - 1) \div DocSize) |->
        SubSeq(flat, (d - 1) * DocSize + 1, Min(d * DocSize, Len(flat)))]

\* count_tokens has opened the archive
InitCount ==
    /\ InitArchive
    /\ IdleTokens
    /\ IdleNormalize
    /\ IdleInfo
    /\ IdleRest
    /\ IdleTransliterate
    /\ \E flat \in TokenStreams : cdocs = DocsOf(flat)
    /\ counts = <<>>
    /\ total = 0
    /\ out_file = <<>>
    /\ ci = 0
    /\ cpc = "counting"

NextCount ==
    \/ CountDoc
    \/ CountWrite

SpecCount == InitCount /\ [][NextCount]_vars

(* ------------------------ properties: count_tokens --------------------- *)

\* the tokens of the archive, normalized, in order
RECURSIVE NormalizedTokens(_)
NormalizedTokens(ds) ==
    IF ds = <<>> THEN <<>>
    ELSE [i \in DOMAIN Head(ds) |-> normalize_token(get_language_info(nlang), Head(ds)[i])]
         \o NormalizedTokens(Tail(ds))

\* how often t is among them
Occurrences(t) ==
    LET all == NormalizedTokens(cdocs) IN Cardinality({i \in DOMAIN all : all[i] = t})

\* C20: the file starts with the line of __total__ and the number of non-empty
\* normalized tokens; then every token that occurs at least twice has one line
\* with its number of occurrences, the lines in non-increasing order of the
\* numbers; a token that occurs once, and the empty token, has no line
CountFile ==
    cpc = "done" =>
        LET all == NormalizedTokens(cdocs)
            lines == Tail(out_file)
        IN  /\ out_file[1] = <<"__total__", Cardinality({i \in DOMAIN all : all[i] # <<>>})>>
            /\ \A i \in DOMAIN lines :
                    /\ lines[i][1] # <<>>
                    /\ lines[i][2] = Occurrences(lines[i][1])
                    /\ lines[i][2] >= 2
            /\ \A i \in DOMAIN all :
                    all[i] # <<>> /\ Occurrences(all[i]) >= 2
                        => Cardinality({j \in DOMAIN lines : lines[j][1] = all[i]}) = 1
            /\ \A i, j \in DOMAIN lines : i < j => lines[i][2] >= lines[j][2]

\* b was counted first and twice, a three times in both cases, and a tatweel
\* token came to nothing
CountFileWitness ==
    /\ cpc = "done"
    /\ cdocs = <<<<<<"b">>, <<"A">>>>, <<<<"a">>, <<"U+0640">>>>, <<<<"b">>, <<"a">>>>>>
    /\ out_file = <<<<"__total__", 5>>, <<<<"a">>, 3>>, <<<<"b">>, 2>>>>

(* ------------------- properties: what write_stream pulls ---------------- *)

\* C21: when write_stream is about to append chunk chunk_num to the container
\* it has pulled from the input exactly min(N, (chunk_num + 1) * chunk_size)
\* items, none of them belonging to a later chunk.
PullsOnlyOwnChunks ==
    wpc = "finalize" =>
        pulled = Min(Len(stream), (chunk_num + 1) * chunk_size)

(* ---------------- normalizing the two cases of a letter ----------------- *)

\* the languages whose profile names a transliteration table
TransliteratedLangs == {t \in LanguageTags : get_language_info(t).transliteration # None}

\* the uppercase/lowercase pairs of keys of a table: the pairs the source
\* lists side by side, ord('X'): ..., ord('x'): ...
LetterPairs(table) ==
    {<<u, l>> \in (DOMAIN table) \X (DOMAIN table) :
        u # l /\ u \in DOMAIN CaseFolding /\ CaseFolding[u] = <<l>>}

\* normalize_text(uppercase letter, nlang) runs and returns
NormalizeUpper ==
    /\ lpc = "call"
    /\ merged' = <<normalize_with(CurrentInfo(nlang), <<letters[1]>>)>>
    /\ Remember(nlang)
    /\ lpc' = "upper"
    /\ UNCHANGED <<wvars, zip, damaged, rvars, tvars, ntext, nlang, normalized,
                   renormalized, ntoken, npc, itag, ipc, iret, calls, xvars, cvars,
                   letters, fvars, kvars, qvars>>

\* normalize_text(lowercase letter, nlang) runs and returns
NormalizeLower ==
    /\ lpc = "upper"
    /\ merged' = Append(merged, normalize_with(CurrentInfo(nlang), <<letters[2]>>))
    /\ Remember(nlang)
    /\ lpc' = "done"
    /\ UNCHANGED <<wvars, zip, damaged, rvars, tvars, ntext, nlang, normalized,
                   renormalized, ntoken, npc, itag, ipc, iret, calls, xvars, cvars,
                   letters, fvars, kvars, qvars>>

\* normalize_text is about to be called on the two letters of a pair of the
\* table of some transliterated language
InitLetters ==
    /\ InitArchive
    /\ IdleTokens
    /\ IdleInfo
    /\ IdleTransliterate
    /\ IdleCount
    /\ ntext = <<>>
    /\ nlang \in TransliteratedLangs
    /\ normalized = <<>>
    /\ renormalized = <<>>
    /\ ntoken = <<>>
    /\ npc = "idle"
    /\ IdleFold
    /\ IdleTokenize
    /\ IdleCorpus
    /\ letters \in LetterPairs(TableOf(get_language_info(nlang).transliteration))
    /\ merged = <<>>
    /\ lpc = "call"

NextLetters ==
    \/ NormalizeUpper
    \/ NormalizeLower

SpecLetters == InitLetters /\ [][NextLetters]_vars

(* ------------------- properties: case across tables --------------------- *)

\* C22: the uppercase and the lowercase letter of every pair of table keys of
\* sr, az and kk normalize to the same text.
CaseMerged ==
    lpc = "done" => merged[1] = merged[2]

(* ------------------------- casefold_with_i_dots ------------------------- *)

\* casefold_with_i_dots(ftext) runs and returns
CasefoldWithIDots ==
    /\ fpc = "call"
    /\ folded' = casefold_with_i_dots(ftext)
    /\ fpc' = "done"
    /\ UNCHANGED <<wvars, zip, damaged, rvars, tvars, nvars, ivars, xvars, cvars, lvars,
                   ftext, kvars, qvars>>

\* the characters of the folded texts: the four letters i, an S, a space, and
\* the combining dot above, acute, ogonek and dot below
FoldAlphabet ==
    {"I", "U+0130", "i", "U+0131", "S", " ", "U+0307", "U+0301", "U+0328", "U+0323"}

FoldTexts == UNION {[1..n -> FoldAlphabet] : n \in 0..MaxText}

\* casefold_with_i_dots is about to be called on some text
InitFold ==
    /\ InitArchive
    /\ IdleTokens
    /\ IdleNormalize
    /\ IdleInfo
    /\ IdleTransliterate
    /\ IdleCount
    /\ IdleLetters
    /\ IdleTokenize
    /\ IdleCorpus
    /\ ftext \in FoldTexts
    /\ folded = <<>>
    /\ fpc = "call"

NextFold == CasefoldWithIDots

SpecFold == InitFold /\ [][NextFold]_vars

(* --------------- properties: the order of the folding steps ------------- *)

\* the two replacements of casefold_with_i_dots
MapI(text) == replace(replace(text, "U+0130", <<"i">>), "I", <<"U+0131">>)

\* no capital I, dotted or not, stands directly before a combining character
NoMarkedI(text) ==
    \A i \in 1..(Len(text) - 1) :
        text[i] \in {"I", "U+0130"} => ccc(text[i + 1]) = 0

AzerbaijaniLetters ==
    <<
    <<"U+04B8", <<"C">>>>, <<"U+04B9", <<"c">>>>,
    <<"U+04D8", <<"U+018F">>>>, <<"U+04D9", <<"U+0259">>>>,
    <<"U+0492", <<"U+011E">>>>, <<"U+0493", <<"U+011F">>>>,
    <<"U+04BA", <<"H">>>>, <<"U+04BB", <<"h">>>>,
    <<"U+04E8", <<"U+00D6">>>>, <<"U+04E9", <<"U+00F6">>>>,
    <<"U+049C", <<"G">>>>, <<"U+049D", <<"g">>>>,
    <<"U+04AE", <<"U+00DC">>>>, <<"U+04AF", <<"U+00FC">>>>
    >>

\* C24: transliterate('az-Latn', .) gives every letter of the section
\* "Azerbaijani letters" that AZ_LATN_TABLE does not override itself the Latin
\* letter written in that section.
AzerbaijaniLettersKept ==
    (xpc # "call" /\ xtable = "az-Latn") =>
        \A i \in 1..Len(AzerbaijaniLetters) :
            (/\ ntext = <<AzerbaijaniLetters[i][1]>>
             /\ \A j \in 1..Len(AZ_LATN_UPDATE) :
                    AZ_LATN_UPDATE[j][1] # AzerbaijaniLetters[i][1])
            => transliterated = AzerbaijaniLetters[i][2]

(* ---------------------------- tokenize_stream --------------------------- *)

\* MAX_LINE_LENGTH
MAX_LINE_LENGTH == 1000000

\* A line is a sequence of runs <<character, n>>: the character n times over.

\* len(line)
RECURSIVE len(_)
len(line) == IF line = <<>> THEN 0 ELSE Head(line)[2] + len(Tail(line))

\* str.rstrip() on a line
RECURSIVE rstrip(_)
rstrip(line) ==
    IF line # <<>> /\ line[Len(line)][1] \in Whitespace
    THEN rstrip(SubSeq(line, 1, Len(line) - 1)) ELSE line

\* str.strip() on a line
RECURSIVE line_strip(_)
line_strip(line) ==
    IF line # <<>> /\ Head(line)[1] \in Whitespace THEN line_strip(Tail(line))
    ELSE rstrip(line)

\* ftfy.fix_text on the characters of the drawn lines: the curly quotes are
\* made straight; letters, spaces and line feeds stay
fix_text(line) == [i \in 1..Len(line) |-> <<uncurl_quotes(<<line[i][1]>>)[1], line[i][2]>>]

\* fix_surrogates(unescape_html(line)) on the characters of the drawn lines,
\* none of them an ampersand or a surrogate
fix_surrogates_unescape_html(line) == line

\* str.replace('\n', ' ') on a line
replace_newlines(line) ==
    [i \in 1..Len(line) |-> IF line[i][1] = "U+000A" THEN <<" ", line[i][2]>> ELSE line[i]]

\* what processed_stream yields for a line it keeps
ProcessedLine(line, ftfy) ==
    IF ftfy THEN replace_newlines(fix_text(rstrip(line_strip(line))))
    ELSE replace_newlines(fix_surrogates_unescape_html(rstrip(line_strip(line))))

\* a faulty variant of processed_stream: a dropped line yields an empty text
RECURSIVE ProcessedStreamBlanks(_, _)
ProcessedStreamBlanks(stm, ftfy) ==
    IF stm = <<>> THEN <<>>
    ELSE LET line == line_strip(Head(stm)) IN
         (IF line # <<>> /\ len(line) < MAX_LINE_LENGTH
          THEN <<ProcessedLine(Head(stm), ftfy)>> ELSE <<<<>>>>)
         \o ProcessedStreamBlanks(Tail(stm), ftfy)

\* processed_stream(): the items the generator yields, in order
RECURSIVE processed_stream(_, _)
processed_stream(stm, ftfy) ==
    IF stm = <<>> THEN <<>>
    ELSE LET line == line_strip(Head(stm)) IN
         (IF line # <<>> /\ len(line) < MAX_LINE_LENGTH
          THEN <<ProcessedLine(Head(stm), ftfy)>> ELSE <<>>)
         \o processed_stream(Tail(stm), ftfy)

\* tokenize_stream is called: doc_zip = DocZip.open(output_file, lang), then
\* doc_zip.write_stream(processed_stream(), chunk_size=chunk_size) starts; the
\* steps of write_stream pull the items of the generator one by one
TokenizeStream ==
    /\ kpc = "call"
    /\ wpc = "idle"
    /\ stream' = processed_stream(klines, use_ftfy)
    /\ pulled' = 0
    /\ currvalue' = None
    /\ chunk_num' = 0
    /\ doc_bin' = <<>>
    /\ zip' = <<>>
    /\ damaged' = {}
    /\ wpc' = "next_group"
    /\ kpc' = "writing"
    /\ UNCHANGED <<lang, chunk_size, rvars, tvars, nvars, ivars, xvars, cvars, lvars, fvars,
                   klines, use_ftfy, qvars>>

\* write_stream has returned, and tokenize_stream returns
TokenizeReturn ==
    /\ kpc = "writing"
    /\ wpc = "done"
    /\ kpc' = "done"
    /\ UNCHANGED <<wvars, zip, damaged, rvars, tvars, nvars, ivars, xvars, cvars, lvars, fvars,
                   klines, use_ftfy, qvars>>

\* the lines of the input: a letter; nothing but the line feed; a line one
\* character short of MAX_LINE_LENGTH before its line feed; a line of
\* MAX_LINE_LENGTH characters before its line feed; a line with spaces around
\* a curly quote and a letter
Lines ==
    {<<<<"a", 1>>, <<"U+000A", 1>>>>,
     <<<<"U+000A", 1>>>>,
     <<<<"a", MAX_LINE_LENGTH - 1>>, <<"U+000A", 1>>>>,
     <<<<"a", MAX_LINE_LENGTH>>, <<"U+000A", 1>>>>,
     <<<<" ", 2>>, <<"U+2019", 1>>, <<"b", 1>>, <<" ", 1>>, <<"U+000A", 1>>>>}

\* the streams of at most MaxLines lines
LineStreams == UNION {[1..n -> Lines] : n \in 0..MaxLines}

\* tokenize_stream is about to be called on some lines
InitTokenize ==
    /\ lang \in Langs
    /\ stream = <<>>
    /\ chunk_size \in Caps
    /\ pulled = 0
    /\ currvalue = None
    /\ chunk_num = 0
    /\ doc_bin = <<>>
    /\ wpc = "idle"
    /\ zip = <<>>
    /\ damaged = {}
    /\ rpc = [r \in Readers |-> "idle"]
    /\ rnames = [r \in Readers |-> <<>>]
    /\ rk = [r \in Readers |-> 0]
    /\ rbin = [r \in Readers |-> <<>>]
    /\ ri = [r \in Readers |-> 0]
    /\ yielded = [r \in Readers |-> <<>>]
    /\ IdleTokens
    /\ IdleNormalize
    /\ IdleInfo
    /\ IdleTransliterate
    /\ IdleCount
    /\ IdleLetters
    /\ IdleFold
    /\ IdleCorpus
    /\ klines \in LineStreams
    /\ use_ftfy \in BOOLEAN
    /\ kpc = "call"

NextTokenize ==
    \/ TokenizeStream
    \/ WriteNextGroup
    \/ WriteAdd
    \/ WritePull
    \/ WriteFinalize
    \/ TokenizeReturn

SpecTokenize == InitTokenize /\ [][NextTokenize]_vars

(* --------------------- properties: tokenize_stream ---------------------- *)

\* the lines that are not empty once stripped and then shorter than
\* MAX_LINE_LENGTH, in the order of the input
KeptLines ==
    SelectSeq(klines, LAMBDA l : line_strip(l) # <<>> /\ len(line_strip(l)) < MAX_LINE_LENGTH)

\* C25: the archive tokenize_stream wrote holds one document per kept line, in
\* the order of the input; chunk k holds the documents of the kept lines
\* k*chunk_size+1 .. (k+1)*chunk_size, so every chunk but the last is full and
\* a dropped line takes no place.
OneDocPerKeptLine ==
    kpc = "done" =>
        LET n == Len(KeptLines) IN
        /\ Len(zip) = (n + chunk_size - 1) \div chunk_size
        /\ \A i \in 1..Len(zip) :
               Len(zip[i].blob.orths) =
                   IF i < Len(zip) THEN chunk_size ELSE n - (i - 1) * chunk_size
        /\ \A j \in 1..n :
               zip[(j - 1) \div chunk_size + 1].blob.orths[((j - 1) % chunk_size) + 1]
                   = ProcessedLine(KeptLines[j], use_ftfy)

\* C25 witness: a line of MAX_LINE_LENGTH - 1 characters, a dropped line of
\* MAX_LINE_LENGTH characters and a short line were written as one full chunk
OneDocPerKeptLineWitness ==
    /\ kpc = "done"
    /\ chunk_size = 2
    /\ Len(klines) = 3
    /\ len(line_strip(klines[1])) = MAX_LINE_LENGTH - 1
    /\ len(line_strip(klines[2])) = MAX_LINE_LENGTH
    /\ len(line_strip(klines[3])) = 1
    /\ Len(zip) = 1
    /\ Len(zip[1].blob.orths) = 2

(* ------------------- write_stream: a failing input ---------------------- *)

\* a faulty variant of WritePullRaises: the Docs assembled so far are written
\* as a chunk before the exception leaves write_stream
WritePullRaisesFlushes ==
    /\ \/ wpc = "pull"
       \/ wpc = "next_group" /\ currvalue = None
    /\ zip' = IF doc_bin = <<>> THEN zip
              ELSE Append(zip, [name |-> ChunkName(lang, chunk_num),
                                blob |-> ToBytes(doc_bin)])
    /\ doc_bin' = <<>>
    /\ wpc' = "raised"
    /\ UNCHANGED <<lang, stream, chunk_size, pulled, currvalue, chunk_num,
                   damaged, rvars, tvars, ovars>>

\* next() on the input raises, in groupby.__next__ before the first group or
\* in _grouper.__next__: the exception leaves the loops, both with blocks
\* (ZipFile.__exit__ closes the container with the entries written so far)
\* and write_stream
WritePullRaises ==
    /\ \/ wpc = "pull"
       \/ wpc = "next_group" /\ currvalue = None
    /\ doc_bin' = <<>>
    /\ wpc' = "raised"
    /\ UNCHANGED <<lang, stream, chunk_size, pulled, currvalue, chunk_num,
                   zip, damaged, rvars, tvars, ovars>>

\* self.nlp(text) raises: the exception leaves write_stream the same way
WriteAddRaises ==
    /\ wpc = "body"
    /\ doc_bin' = <<>>
    /\ wpc' = "raised"
    /\ UNCHANGED <<lang, stream, chunk_size, pulled, currvalue, chunk_num,
                   zip, damaged, rvars, tvars, ovars>>

\* write_stream on an input or with a tokenizer that may raise at any item
NextFailing ==
    \/ \E s \in Streams, c \in Caps : WriteOpen(s, c)
    \/ WriteNextGroup
    \/ WriteAdd
    \/ WritePull
    \/ WriteFinalize
    \/ WritePullRaises
    \/ WriteAddRaises

SpecFailing == Init /\ [][NextFailing]_vars

(* ----------------- properties: a failing write_stream ------------------- *)

\* C26: when an exception has left write_stream the container holds the
\* chunks finalized before: chunk_num chunks, the i-th of them named by its
\* index and holding the Docs of the texts (i-1)*chunk_size+1 .. i*chunk_size,
\* and nothing of the chunk that was being assembled.
FailureKeepsFinalized ==
    wpc = "raised" =>
        /\ Len(zip) = chunk_num
        /\ Len(zip) * chunk_size <= pulled
        /\ \A i \in 1..Len(zip) :
               zip[i] = [name |-> ChunkName(lang, i - 1),
                         blob |-> ToBytes(AllDocs(SubSeq(stream, (i - 1) * chunk_size + 1,
                                                         i * chunk_size)))]

\* C26 witness: the exception came when one chunk of two documents was in the
\* container and a document of the next chunk had been pulled
FailureKeepsFinalizedWitness ==
    /\ wpc = "raised"
    /\ chunk_size = 2
    /\ Len(zip) = 1
    /\ pulled = 3

(* ------------------------------ corpus_reader --------------------------- *)

\* DocZip.__iter__: the Docs of all chunks, chunk after chunk
RECURSIVE iterate(_)
iterate(z) == IF z = <<>> THEN <<>> ELSE GetDocs(Head(z).blob) \o iterate(Tail(z))

\* list(itertools.islice(docs, start, stop))
islice(docs, start, stop) == SubSeq(docs, start + 1, Min(stop, Len(docs)))

\* corpus_iterator(nlp) is called and what it returns is iterated to its end
CorpusIterator ==
    /\ qpc = "call"
    /\ corpus' = IF limit # NoInt
                 THEN IF start_at # NoInt
                      THEN islice(iterate(zip), start_at, start_at + limit)
                      ELSE islice(iterate(zip), 0, limit)
                 ELSE iterate(zip)
    /\ qpc' = "done"
    /\ UNCHANGED <<wvars, zip, damaged, rvars, tvars, nvars, ivars, xvars, cvars, lvars, fvars,
                   kvars, start_at, limit>>

\* what start_at and limit may be: not given, or 0..MaxSlice
Slices == {NoInt} \cup 0..MaxSlice

\* corpus_reader(corpus_name, lang, workdir, start_at, limit) has returned
\* corpus_iterator; the archive at absolute_corpus_path was written before
InitCorpus ==
    /\ lang \in Langs
    /\ \E s \in Streams, c \in Caps : AfterWrite(s, c)
    /\ damaged = {}
    /\ rpc = [r \in Readers |-> "idle"]
    /\ rnames = [r \in Readers |-> <<>>]
    /\ rk = [r \in Readers |-> 0]
    /\ rbin = [r \in Readers |-> <<>>]
    /\ ri = [r \in Readers |-> 0]
    /\ yielded = [r \in Readers |-> <<>>]
    /\ IdleTokens
    /\ IdleNormalize
    /\ IdleInfo
    /\ IdleTransliterate
    /\ IdleCount
    /\ IdleLetters
    /\ IdleFold
    /\ IdleTokenize
    /\ start_at \in Slices
    /\ limit \in Slices
    /\ corpus = <<>>
    /\ qpc = "call"

NextCorpus == CorpusIterator

SpecCorpus == InitCorpus /\ [][NextCorpus]_vars

(* ---------------------- properties: corpus_reader ----------------------- *)

\* the Docs of the archive without the first n
Skip(docs, n) == SubSeq(docs, n + 1, Len(docs))

\* the first n Docs at most
Take(docs, n) == SubSeq(docs, 1, Min(n, Len(docs)))

\* C27: the iterator skips the first start_at Docs of the archive whenever
\* start_at is given and yields at most limit Docs whenever limit is given,
\* whichever of the two are given; with neither it yields every Doc in order.
SkipsAndLimits ==
    qpc = "done" =>
        LET skipped == IF start_at # NoInt THEN Skip(AllDocs(stream), start_at)
                       ELSE AllDocs(stream)
        IN  corpus = IF limit # NoInt THEN Take(skipped, limit) ELSE skipped

====
